---- MODULE Spec2Model ----
(***************************************************************************)
(* A model of the Mbed TLS network stream driver of rsyslog                *)
(* (runtime/nsd_mbedtls.c) and of its select() companion                   *)
(* (runtime/nsdsel_mbedtls.c).                                             *)
(*                                                                         *)
(* The state is the C state: one nsd_mbedtls_s record per driver, the one  *)
(* nsdsel_mbedtls_s object, the bytes waiting at each driver's OS socket,  *)
(* and the process-wide default credential files.  The variable ret holds  *)
(* what the last call returned (iRet and the out-parameters) together with *)
(* which collaborators the call touched.                                   *)
(***************************************************************************)
EXTENDS Integers, Sequences, FiniteSets, TLC

VARIABLES
    nsd,      \* [Drivers -> struct nsd_mbedtls_s]
    nsdsel,   \* struct nsdsel_mbedtls_s (with the state of its nested nsdsel_ptcp)
    wire,     \* [Drivers -> sequence of what waits at the driver's OS socket]
    glbl,     \* the process-wide default credential files
    ret,      \* the last call: its name, arguments, iRet, out-parameters, effects
    round,    \* the polling loop's position in its round
    hist      \* observations of the two ends of a connection

vars == <<nsd, nsdsel, wire, glbl, ret, round, hist>>

----------------------------------------------------------------------------
(* Bounds of the model.                                                    *)

MaxRec == 2        \* longest payload of one TLS record
MaxWire == 1       \* records that may wait at one socket
MaxLenBuf == 2     \* largest receive buffer a caller passes to Rcv
MaxCount == 2      \* iBufferRcvReady is kept within -MaxCount .. MaxCount
MaxStream == 3     \* bytes a sender has to send over one connection
MaxPend == 1       \* times a library call reports WANT_READ or WANT_WRITE in a row

Drivers == {"d1", "d2"}

(* The other end of a driver's connection.                                 *)
Peer(d) == IF d = "d1" THEN "d2" ELSE "d1"

(* The two modelled drivers are the two ends of one connection when both  *)
(* have a connected socket; else a driver's peer is a remote host.         *)
Linked(d) == nsd[d].pTcp = "connected" /\ nsd[Peer(d)].pTcp = "connected"

----------------------------------------------------------------------------
(* Values of the C program.                                                *)

NULL == "NULL"

RS_RET_OK == 0
RS_RET_NO_ERRCODE == -1
RS_RET_OUT_OF_MEMORY == -6
RS_RET_EOF == -2026
RS_RET_IO_ERROR == -2027
RS_RET_INVALID_DRVR_MODE == -2081
RS_RET_TLS_HANDSHAKE_ERR == -2083
RS_RET_VALUE_NOT_SUPPORTED == -2086
RS_RET_VALUE_NOT_IN_THIS_MODE == -2087
RS_RET_CONNECTION_ABORTREQ == -2089
RS_RET_CLOSED == -2099
RS_RET_RETRY == -2100
RS_RET_ACCEPT_ERR == -2106
RS_RET_RCV_ERR == -2165

MBEDTLS_ERR_SSL_WANT_READ == -26880
MBEDTLS_ERR_SSL_WANT_WRITE == -26752
MBEDTLS_ERR_SSL_PEER_CLOSE_NOTIFY == -30848
MBEDTLS_ERR_SSL_BAD_INPUT_DATA == -28928
MBEDTLS_ERR_SSL_INVALID_MAC == -29056

MBEDTLS_ERR_NET_SEND_FAILED == -78
MBEDTLS_ERR_CTR_DRBG_ENTROPY_SOURCE_FAILED == -52
MBEDTLS_ERR_PK_KEY_INVALID_FORMAT == -15616
MBEDTLS_ERR_X509_INVALID_FORMAT == -8576
MBEDTLS_ERR_X509_CERT_VERIFY_FAILED == -9984
MBEDTLS_ERR_SSL_ALLOC_FAILED == -32512

MBEDTLS_SSL_VERIFY_NONE == 0
MBEDTLS_SSL_VERIFY_REQUIRED == 2

NSDSEL_RD == 1
NSDSEL_WR == 2

WaitOps == {NSDSEL_RD, NSDSEL_WR}

Min(a, b) == IF a < b THEN a ELSE b

Take(s, n) == SubSeq(s, 1, Min(n, Len(s)))

Drop(s, n) == SubSeq(s, Min(n, Len(s)) + 1, Len(s))

----------------------------------------------------------------------------
(* What the last call did.                                                 *)
(*   op     the function called          d    the driver it was called on  *)
(*   arg    its scalar argument          iRet its return value             *)
(*   out    its out-parameter: piNumReady, pbIsReady or pLenBuf            *)
(*   nested TRUE when the call invoked the nested ptcp object              *)
(*   lib    what the TLS library call made by it returned (0: none made)   *)
(*   data   the bytes the call put into the caller's buffer                *)
(*   logs   how often the call logged "error parsing crypto config"        *)

(*   calls  the library and ptcp calls it made, in order                    *)
(*   files  the file each credential was parsed from ("-": not parsed)     *)

NoFiles == [key |-> "-", cert |-> "-", ca |-> "-", crl |-> "-"]

Ret(op, d, arg, iRet, out, nested, lib) ==
    [op |-> op, d |-> d, arg |-> arg, iRet |-> iRet, out |-> out,
     nested |-> nested, lib |-> lib, data |-> <<>>, logs |-> 0,
     calls |-> <<>>, files |-> NoFiles]

NoRet == Ret("none", "none", 0, RS_RET_OK, 0, FALSE, 0)

Called(calls, f) == \E i \in 1..Len(calls) : calls[i] = f

----------------------------------------------------------------------------
(* struct nsd_mbedtls_s after nsd_mbedtlsConstruct: calloc'ed, the nested  *)
(* ptcp driver constructed, every library object initialised.              *)

NewSsl == [state |-> "init", inbuf |-> <<>>]

(* mbedtls_ssl_config after mbedtls_ssl_config_init: nothing installed.    *)
NewConf == [authmode |-> MBEDTLS_SSL_VERIFY_NONE, ca_chain |-> NULL,
            ca_crl |-> NULL, own_cert |-> NULL, own_key |-> NULL]

NewNsd ==
    [pTcp |-> "constructed",
     pszCAFile |-> NULL, pszCRLFile |-> NULL,
     pszKeyFile |-> NULL, pszCertFile |-> NULL,
     iMode |-> 0, bAbortConn |-> 0,
     authMode |-> MBEDTLS_SSL_VERIFY_NONE, bChkName |-> 0,
     bHaveSess |-> 0, DrvrVerifyDepth |-> 0, pPermPeer |-> NULL, sock |-> 0,
     seeded |-> FALSE, ssl |-> NewSsl, conf |-> NewConf,
     bHaveCaCert |-> 0, cacert |-> "init",
     bHaveCrl |-> 0, crl |-> "init",
     bHaveKey |-> 0, pkey |-> "init",
     bHaveCert |-> 0, srvcert |-> "init"]

(* The slot of a driver that does not exist: never constructed, or         *)
(* destructed and its memory freed.                                        *)
NoObj == [NewNsd EXCEPT !.pTcp = "freed"]

(* A driver with an established connection, in plain or in TLS mode, whose *)
(* TLS session holds the decrypted bytes buf.                              *)
Established(mode, buf) ==
    [NewNsd EXCEPT !.pTcp = "connected", !.iMode = mode,
                   !.bHaveSess = mode, !.seeded = (mode = 1),
                   !.ssl = [state |-> IF mode = 1 THEN "over" ELSE "init",
                            inbuf |-> buf]]

(* struct nsdsel_mbedtls_s after nsdsel_mbedtlsConstruct.  The nested      *)
(* nsdsel_ptcp holds the registrations made since its last wait (fds),     *)
(* whether it has waited since the last registration, and what that wait   *)
(* found ready.                                                            *)
NewPtcpSel == [fds |-> {}, waited |-> FALSE, ready |-> {}]

NewNsdsel == [pTcp |-> NewPtcpSel, iBufferRcvReady |-> 0]

DataRec(bytes) == [kind |-> "data", bytes |-> bytes]

----------------------------------------------------------------------------
(* The collaborators: the TLS library's record layer, the OS socket and    *)
(* the nested plain tcp objects, as far as the driver's code relies on     *)
(* them.                                                                   *)

mbedtls_ssl_get_bytes_avail(ssl) == Len(ssl.inbuf)

(* mbedtls_ssl_read(ssl, buf, len) with w waiting at the socket: a context *)
(* that was never set up is refused; decrypted bytes left over from the    *)
(* current record are handed out first; else the next record is taken     *)
(* from the socket.  n is the return value.                                *)
SslRead(ssl, w, len) ==
    IF ssl.state = "init"
    THEN [n |-> MBEDTLS_ERR_SSL_BAD_INPUT_DATA, data |-> <<>>, ssl |-> ssl, wire |-> w]
    ELSE IF ssl.inbuf # <<>>
    THEN [n |-> Min(len, Len(ssl.inbuf)), data |-> Take(ssl.inbuf, len),
          ssl |-> [ssl EXCEPT !.inbuf = Drop(@, len)], wire |-> w]
    ELSE IF w = <<>>
    THEN [n |-> MBEDTLS_ERR_SSL_WANT_READ, data |-> <<>>, ssl |-> ssl, wire |-> w]
    ELSE IF Head(w).kind = "data"
    THEN [n |-> Min(len, Len(Head(w).bytes)), data |-> Take(Head(w).bytes, len),
          ssl |-> [ssl EXCEPT !.inbuf = Drop(Head(w).bytes, len)],
          wire |-> Tail(w)]
    ELSE IF Head(w).kind = "close_notify"
    THEN [n |-> MBEDTLS_ERR_SSL_PEER_CLOSE_NOTIFY, data |-> <<>>,
          ssl |-> [ssl EXCEPT !.state = "closed"], wire |-> Tail(w)]
    ELSE IF Head(w).kind = "eof"
    THEN [n |-> 0, data |-> <<>>, ssl |-> ssl, wire |-> w]
    ELSE [n |-> MBEDTLS_ERR_SSL_INVALID_MAC, data |-> <<>>, ssl |-> ssl,
          wire |-> Tail(w)]

(* nsd_ptcp.Rcv on a non-blocking socket: what is there, up to len bytes.  *)
PtcpRcv(w, len) ==
    IF w = <<>>
    THEN [iRet |-> RS_RET_RETRY, len |-> len, data |-> <<>>, wire |-> w]
    ELSE IF Head(w).kind # "data"
    THEN [iRet |-> RS_RET_CLOSED, len |-> 0, data |-> <<>>, wire |-> w]
    ELSE [iRet |-> RS_RET_OK, len |-> Min(len, Len(Head(w).bytes)),
          data |-> Take(Head(w).bytes, len),
          wire |-> IF Drop(Head(w).bytes, len) = <<>> THEN Tail(w)
                   ELSE <<DataRec(Drop(Head(w).bytes, len))>> \o Tail(w)]

(* The OS's answer for one descriptor: writable always, readable when      *)
(* something waits at the socket.                                          *)
OsReady(w, d, waitOp) == waitOp = NSDSEL_WR \/ w[d] # <<>>

(* nsdsel_ptcp.Add, .Select, .IsReady.  IsReady answers from the last wait *)
(* when there was one since the last registration; without a wait its      *)
(* answer is whatever the descriptor table holds: either value.            *)
PtcpSelAdd(p, d, waitOp) ==
    [fds |-> p.fds \cup {<<d, waitOp>>}, waited |-> FALSE, ready |-> {}]

PtcpSelSelect(p, w) ==
    [fds |-> {}, waited |-> TRUE,
     ready |-> {f \in p.fds : OsReady(w, f[1], f[2])}]

PtcpSelIsReady(p, d, waitOp) ==
    IF p.waited THEN {IF <<d, waitOp>> \in p.ready THEN 1 ELSE 0} ELSE {0, 1}

----------------------------------------------------------------------------
(* nsdsel_mbedtls.c                                                        *)

(* The test without the comparison of waitOp with NSDSEL_RD.               *)
HasBufferedData_AnyOp(t, waitOp) ==
    t.iMode = 1 /\ mbedtls_ssl_get_bytes_avail(t.ssl) > 0

(* The test of Add and of IsReady: TLS mode, waiting to read, and the      *)
(* session holds decrypted bytes.                                          *)
HasBufferedData(t, waitOp) ==
    t.iMode = 1 /\ waitOp = NSDSEL_RD /\ mbedtls_ssl_get_bytes_avail(t.ssl) > 0

(* Add without the dummy registration.                                     *)
AddResult_NoDummy(sel, t, d, waitOp) ==
    [sel |-> [sel EXCEPT !.pTcp = PtcpSelAdd(@, d, waitOp)], nested |-> TRUE]

(* Add: the object after the call, and whether nsdsel_ptcp.Add was called. *)
AddResult(sel, t, d, waitOp) ==
    IF HasBufferedData(t, waitOp)
    THEN [sel |-> [sel EXCEPT !.iBufferRcvReady = @ + 1], nested |-> FALSE]
    ELSE [sel |-> [sel EXCEPT !.pTcp = PtcpSelAdd(@, d, waitOp)], nested |-> TRUE]

Add(d, waitOp) ==
    LET r == AddResult(nsdsel, nsd[d], d, waitOp) IN
    /\ r.sel.iBufferRcvReady <= MaxCount
    /\ nsdsel' = r.sel
    /\ ret' = Ret("Add", d, waitOp, RS_RET_OK, 0, r.nested, 0)
    /\ UNCHANGED <<nsd, wire, glbl>>

(* Select with the test "> 0" written as ">= 0".                           *)
SelectResult_TestGE(sel, w) ==
    IF sel.iBufferRcvReady >= 0
    THEN [piNumReady |-> sel.iBufferRcvReady, sel |-> sel, nested |-> FALSE]
    ELSE [piNumReady |-> Cardinality(PtcpSelSelect(sel.pTcp, w).ready),
          sel |-> [sel EXCEPT !.pTcp = PtcpSelSelect(@, w)], nested |-> TRUE]

(* Select: piNumReady, the object after the call, and whether the nested   *)
(* select (the OS wait) was made.                                          *)
SelectResult(sel, w) ==
    IF sel.iBufferRcvReady > 0
    THEN [piNumReady |-> sel.iBufferRcvReady, sel |-> sel, nested |-> FALSE]
    ELSE [piNumReady |-> Cardinality(PtcpSelSelect(sel.pTcp, w).ready),
          sel |-> [sel EXCEPT !.pTcp = PtcpSelSelect(@, w)], nested |-> TRUE]

Select ==
    LET r == SelectResult(nsdsel, wire) IN
    /\ nsdsel' = r.sel
    /\ ret' = Ret("Select", "none", 0, RS_RET_OK, r.piNumReady, r.nested, 0)
    /\ UNCHANGED <<nsd, wire, glbl>>

(* IsReady without the decrement of the counter.                           *)
IsReadyResults_NoDecrement(sel, t, d, waitOp) ==
    IF HasBufferedData(t, waitOp)
    THEN {[pbIsReady |-> 1, sel |-> sel, nested |-> FALSE]}
    ELSE IF sel.iBufferRcvReady # 0
    THEN {[pbIsReady |-> 0, sel |-> sel, nested |-> FALSE]}
    ELSE {[pbIsReady |-> b, sel |-> sel, nested |-> TRUE] :
             b \in PtcpSelIsReady(sel.pTcp, d, waitOp)}

(* IsReady with the test of the counter written as "> 0".                  *)
IsReadyResults_TestGT(sel, t, d, waitOp) ==
    IF HasBufferedData(t, waitOp)
    THEN {[pbIsReady |-> 1, sel |-> [sel EXCEPT !.iBufferRcvReady = @ - 1],
           nested |-> FALSE]}
    ELSE IF sel.iBufferRcvReady > 0
    THEN {[pbIsReady |-> 0, sel |-> sel, nested |-> FALSE]}
    ELSE {[pbIsReady |-> b, sel |-> sel, nested |-> TRUE] :
             b \in PtcpSelIsReady(sel.pTcp, d, waitOp)}

(* IsReady: the possible results (pbIsReady, the object after the call,    *)
(* whether nsdsel_ptcp.IsReady was called).                                *)
IsReadyResults(sel, t, d, waitOp) ==
    IF HasBufferedData(t, waitOp)
    THEN {[pbIsReady |-> 1, sel |-> [sel EXCEPT !.iBufferRcvReady = @ - 1],
           nested |-> FALSE]}
    ELSE IF sel.iBufferRcvReady # 0
    THEN {[pbIsReady |-> 0, sel |-> sel, nested |-> FALSE]}
    ELSE {[pbIsReady |-> b, sel |-> sel, nested |-> TRUE] :
             b \in PtcpSelIsReady(sel.pTcp, d, waitOp)}

IsReady(d, waitOp) ==
    \E r \in IsReadyResults(nsdsel, nsd[d], d, waitOp) :
        /\ r.sel.iBufferRcvReady >= -MaxCount
        /\ nsdsel' = r.sel
        /\ ret' = Ret("IsReady", d, waitOp, RS_RET_OK, r.pbIsReady, r.nested, 0)
        /\ UNCHANGED <<nsd, wire, glbl>>

----------------------------------------------------------------------------
(* nsd_mbedtls.c: SetMode, SetAuthMode                                     *)

SetModeResult_StoreFirst(t, mode) ==
    [t |-> [t EXCEPT !.iMode = mode],
     iRet |-> IF mode # 0 /\ mode # 1 THEN RS_RET_INVALID_DRVR_MODE ELSE RS_RET_OK]

(* SetMode: the driver after the call, and iRet.                           *)
SetModeResult(t, mode) ==
    IF mode # 0 /\ mode # 1
    THEN [t |-> t, iRet |-> RS_RET_INVALID_DRVR_MODE]
    ELSE [t |-> [t EXCEPT !.iMode = mode], iRet |-> RS_RET_OK]

SetMode(d, mode) ==
    LET r == SetModeResult(nsd[d], mode) IN
    /\ nsd' = [nsd EXCEPT ![d] = r.t]
    /\ ret' = Ret("SetMode", d, mode, r.iRet, 0, FALSE, 0)
    /\ UNCHANGED <<nsdsel, wire, glbl>>

(* The characters of the C strings the model uses: their codes, without    *)
(* the terminating NUL.                                                    *)
Chars(str) ==
    CASE str = "x509/name" -> <<120, 53, 48, 57, 47, 110, 97, 109, 101>>
      [] str = "X509/NAME" -> <<88, 53, 48, 57, 47, 78, 65, 77, 69>>
      [] str = "x509/certvalid" ->
             <<120, 53, 48, 57, 47, 99, 101, 114, 116, 118, 97, 108, 105, 100>>
      [] str = "x509/CertValid" ->
             <<120, 53, 48, 57, 47, 67, 101, 114, 116, 86, 97, 108, 105, 100>>
      [] str = "anon" -> <<97, 110, 111, 110>>
      [] str = "Anon" -> <<65, 110, 111, 110>>
      [] str = "x509" -> <<120, 53, 48, 57>>
      [] str = "x509/names" -> <<120, 53, 48, 57, 47, 110, 97, 109, 101, 115>>
      [] str = "x509/fingerprint" ->
             <<120, 53, 48, 57, 47, 102, 105, 110, 103, 101, 114, 112, 114, 105, 110, 116>>
      [] str = "" -> <<>>
      [] str = "off" -> <<111, 102, 102>>
      [] str = "OFF" -> <<79, 70, 70>>
      [] str = "oFf" -> <<111, 70, 102>>
      [] str = "of" -> <<111, 102>>
      [] str = "offs" -> <<111, 102, 102, 115>>
      [] str = "on" -> <<111, 110>>
      [] str = "ON" -> <<79, 78>>
      [] str = "warn" -> <<119, 97, 114, 110>>

(* The character at index i of a C string: past the end, the NUL.          *)
CharAt(cs, i) == IF i <= Len(cs) THEN cs[i] ELSE 0

tolower(c) == IF c >= 65 /\ c <= 90 THEN c + 32 ELSE c

RECURSIVE StrCaseCmpFrom(_, _, _)
StrCaseCmpFrom(a, b, i) ==
    LET ca == tolower(CharAt(a, i))
        cb == tolower(CharAt(b, i))
    IN  IF ca # cb \/ ca = 0 THEN ca - cb ELSE StrCaseCmpFrom(a, b, i + 1)

(* strcasecmp of two C strings.                                            *)
strcasecmp(s1, s2) == StrCaseCmpFrom(Chars(s1), Chars(s2), 1)

(* SetAuthMode: the driver after the call, and iRet.  The name check flag  *)
(* is cleared on entry.                                                    *)
SetAuthModeResult(t, mode) ==
    LET t0 == [t EXCEPT !.bChkName = 0] IN
    IF mode = NULL \/ strcasecmp(mode, "x509/name") = 0
    THEN [t |-> [t0 EXCEPT !.authMode = MBEDTLS_SSL_VERIFY_REQUIRED,
                           !.bChkName = 1],
          iRet |-> RS_RET_OK]
    ELSE IF strcasecmp(mode, "x509/certvalid") = 0
    THEN [t |-> [t0 EXCEPT !.authMode = MBEDTLS_SSL_VERIFY_REQUIRED],
          iRet |-> RS_RET_OK]
    ELSE IF strcasecmp(mode, "anon") = 0
    THEN [t |-> [t0 EXCEPT !.authMode = MBEDTLS_SSL_VERIFY_NONE],
          iRet |-> RS_RET_OK]
    ELSE [t |-> t0, iRet |-> RS_RET_VALUE_NOT_SUPPORTED]

SetAuthMode(d, mode) ==
    LET r == SetAuthModeResult(nsd[d], mode) IN
    /\ nsd' = [nsd EXCEPT ![d] = r.t]
    /\ ret' = Ret("SetAuthMode", d, mode, r.iRet, 0, FALSE, 0)
    /\ UNCHANGED <<nsdsel, wire, glbl>>

----------------------------------------------------------------------------
(* nsd_mbedtls.c: SetPermitExpiredCerts                                    *)

(* SetPermitExpiredCerts that accepts every value.                         *)
SetPermitExpiredCertsResult_AcceptAll(t, mode) == [t |-> t, iRet |-> RS_RET_OK]

(* SetPermitExpiredCerts: the driver after the call, and iRet.  Nothing is *)
(* stored; a value other than null and "off" is refused.                   *)
SetPermitExpiredCertsResult(t, mode) ==
    IF mode # NULL /\ strcasecmp(mode, "off") # 0
    THEN [t |-> t, iRet |-> RS_RET_VALUE_NOT_SUPPORTED]
    ELSE [t |-> t, iRet |-> RS_RET_OK]

SetPermitExpiredCerts(d, mode) ==
    LET r == SetPermitExpiredCertsResult(nsd[d], mode) IN
    /\ nsd' = [nsd EXCEPT ![d] = r.t]
    /\ ret' = Ret("SetPermitExpiredCerts", d, mode, r.iRet, 0, FALSE, 0)
    /\ UNCHANGED <<nsdsel, wire, glbl>>

----------------------------------------------------------------------------
(* nsd_mbedtls.c: SetPermPeers, SetTlsVerifyDepth                          *)

(* A permittedPeers_t list is the sequence of its entries, the null        *)
(* pointer the empty sequence.                                             *)
PermPeer(id, type) == [pszID |-> id, etryType |-> type]

(* SetPermPeers that frees the stored peer before it looks at the list.    *)
SetPermPeersResult_FreeFirst(t, pPermPeers, oom) ==
    LET t0 == [t EXCEPT !.pPermPeer = NULL] IN
    IF pPermPeers = <<>> THEN [t |-> t0, iRet |-> RS_RET_OK, warned |-> FALSE]
    ELSE IF t.authMode # MBEDTLS_SSL_VERIFY_REQUIRED \/ t.bChkName = 0
    THEN [t |-> t0, iRet |-> RS_RET_VALUE_NOT_IN_THIS_MODE, warned |-> FALSE]
    ELSE IF Head(pPermPeers).etryType \notin
                {"PERM_PEER_TYPE_UNDECIDED", "PERM_PEER_TYPE_PLAIN"}
    THEN [t |-> t0, iRet |-> RS_RET_VALUE_NOT_SUPPORTED, warned |-> FALSE]
    ELSE [t |-> [t EXCEPT !.pPermPeer = IF oom THEN NULL ELSE Head(pPermPeers).pszID],
          iRet |-> IF oom THEN RS_RET_OUT_OF_MEMORY ELSE RS_RET_OK,
          warned |-> Len(pPermPeers) > 1]

(* SetPermPeers: the driver after the call, iRet, and whether the warning  *)
(* "only one peer supported" was logged.  oom: strdup finds no memory.     *)
SetPermPeersResult(t, pPermPeers, oom) ==
    IF pPermPeers = <<>>
    THEN [t |-> [t EXCEPT !.pPermPeer = NULL], iRet |-> RS_RET_OK, warned |-> FALSE]
    ELSE IF t.authMode # MBEDTLS_SSL_VERIFY_REQUIRED \/ t.bChkName = 0
    THEN [t |-> t, iRet |-> RS_RET_VALUE_NOT_IN_THIS_MODE, warned |-> FALSE]
    ELSE IF Head(pPermPeers).etryType \notin
                {"PERM_PEER_TYPE_UNDECIDED", "PERM_PEER_TYPE_PLAIN"}
    THEN [t |-> t, iRet |-> RS_RET_VALUE_NOT_SUPPORTED, warned |-> FALSE]
    ELSE [t |-> [t EXCEPT !.pPermPeer = IF oom THEN NULL ELSE Head(pPermPeers).pszID],
          iRet |-> IF oom THEN RS_RET_OUT_OF_MEMORY ELSE RS_RET_OK,
          warned |-> Len(pPermPeers) > 1]

SetPermPeers(d, pPermPeers, oom) ==
    LET r == SetPermPeersResult(nsd[d], pPermPeers, oom) IN
    /\ nsd' = [nsd EXCEPT ![d] = r.t]
    /\ ret' = [Ret("SetPermPeers", d, pPermPeers, r.iRet, 0, FALSE, 0)
               EXCEPT !.logs = IF r.warned THEN 1 ELSE 0]
    /\ UNCHANGED <<nsdsel, wire, glbl>>

(* SetTlsVerifyDepth stores its argument.                                  *)
SetTlsVerifyDepth(d, verifyDepth) ==
    /\ nsd' = [nsd EXCEPT ![d].DrvrVerifyDepth = verifyDepth]
    /\ ret' = Ret("SetTlsVerifyDepth", d, verifyDepth, RS_RET_OK, 0, FALSE, 0)
    /\ UNCHANGED <<nsdsel, wire, glbl>>

----------------------------------------------------------------------------
(* nsd_mbedtls.c: SetTlsCAFile, SetTlsCRLFile, SetTlsKeyFile,              *)
(* SetTlsCertFile.  The four functions differ in the field only; c names   *)
(* the credential: "key", "cert", "ca" or "crl".                           *)

Creds == {"key", "cert", "ca", "crl"}

PathOf(t, c) ==
    CASE c = "key" -> t.pszKeyFile
      [] c = "cert" -> t.pszCertFile
      [] c = "ca" -> t.pszCAFile
      [] c = "crl" -> t.pszCRLFile

WithPath(t, c, psz) ==
    CASE c = "key" -> [t EXCEPT !.pszKeyFile = psz]
      [] c = "cert" -> [t EXCEPT !.pszCertFile = psz]
      [] c = "ca" -> [t EXCEPT !.pszCAFile = psz]
      [] c = "crl" -> [t EXCEPT !.pszCRLFile = psz]

SetterOf(c) ==
    CASE c = "key" -> "SetTlsKeyFile"
      [] c = "cert" -> "SetTlsCertFile"
      [] c = "ca" -> "SetTlsCAFile"
      [] c = "crl" -> "SetTlsCRLFile"

(* The setter that keeps the old path when it is given a null pointer.     *)
SetTlsFileResult_KeepOnNull(t, c, file, oom) ==
    IF file = NULL
    THEN [t |-> t, iRet |-> RS_RET_OK]
    ELSE IF oom
    THEN [t |-> WithPath(t, c, NULL), iRet |-> RS_RET_OUT_OF_MEMORY]
    ELSE [t |-> WithPath(t, c, file), iRet |-> RS_RET_OK]

(* The old string is freed; a null argument leaves the field null; else    *)
(* the field is strdup's result, which is null when memory is short.       *)
SetTlsFileResult(t, c, file, oom) ==
    IF file = NULL
    THEN [t |-> WithPath(t, c, NULL), iRet |-> RS_RET_OK]
    ELSE IF oom
    THEN [t |-> WithPath(t, c, NULL), iRet |-> RS_RET_OUT_OF_MEMORY]
    ELSE [t |-> WithPath(t, c, file), iRet |-> RS_RET_OK]

SetTlsFile(d, c, file, oom) ==
    LET r == SetTlsFileResult(nsd[d], c, file, oom) IN
    /\ nsd' = [nsd EXCEPT ![d] = r.t]
    /\ ret' = Ret(SetterOf(c), d, file, r.iRet, 0, FALSE, 0)
    /\ UNCHANGED <<nsdsel, wire, glbl>>

----------------------------------------------------------------------------
(* nsd_mbedtls.c: mbedtlsInitSession, mbedtlsInitCred, Connect             *)

(* The files that do not hold what a credential file must hold.            *)
BadFiles == {"bad.pem"}

(* mbedtls_pk_parse_keyfile, mbedtls_x509_crt_parse_file and               *)
(* mbedtls_x509_crl_parse_file: 0, or the library's error.                 *)
ParseFile(c, file) ==
    IF file \notin BadFiles THEN 0
    ELSE IF c = "key" THEN MBEDTLS_ERR_PK_KEY_INVALID_FORMAT
    ELSE MBEDTLS_ERR_X509_INVALID_FORMAT

ParserOf(c) ==
    CASE c = "key" -> "mbedtls_pk_parse_keyfile"
      [] c = "cert" -> "mbedtls_x509_crt_parse_file(srvcert)"
      [] c = "ca" -> "mbedtls_x509_crt_parse_file(cacert)"
      [] c = "crl" -> "mbedtls_x509_crl_parse_file"

(* The credential object of c after a parse: it holds the file's content   *)
(* and the presence flag is set, or the parse failed and the flag is left  *)
(* as it was.                                                              *)
WithParsed(t, c, file) ==
    CASE c = "key" -> [t EXCEPT !.pkey = file, !.bHaveKey = 1]
      [] c = "cert" -> [t EXCEPT !.srvcert = file, !.bHaveCert = 1]
      [] c = "ca" -> [t EXCEPT !.cacert = file, !.bHaveCaCert = 1]
      [] c = "crl" -> [t EXCEPT !.crl = file, !.bHaveCrl = 1]

WithFailed(t, c) ==
    CASE c = "key" -> [t EXCEPT !.pkey = "failed"]
      [] c = "cert" -> [t EXCEPT !.srvcert = "failed"]
      [] c = "ca" -> [t EXCEPT !.cacert = "failed"]
      [] c = "crl" -> [t EXCEPT !.crl = "failed"]

(* One block of mbedtlsInitCred that looks at the driver's path only.       *)
LoadCred_NoDefault(a, g, c) ==
    LET file == PathOf(a.t, c)
        rc == ParseFile(c, file)
    IN  IF a.iRet # 0 THEN a
        ELSE IF file = NULL THEN [a EXCEPT !.files[c] = NULL]
        ELSE [t |-> IF rc # 0 THEN WithFailed(a.t, c) ELSE WithParsed(a.t, c, file),
              iRet |-> rc,
              files |-> [a.files EXCEPT ![c] = file],
              calls |-> Append(a.calls, ParserOf(c)),
              logs |-> 0]

(* One block of mbedtlsInitCred: the file is the driver's path, or the     *)
(* process-wide default when the path is null; when there is a file, the   *)
(* object is freed, initialised and parsed from it.  a is the function's   *)
(* progress: nothing happens once iRet is set.                             *)
LoadCred(a, g, c) ==
    LET file == IF PathOf(a.t, c) = NULL THEN g[c] ELSE PathOf(a.t, c)
        rc == ParseFile(c, file)
    IN  IF a.iRet # 0 THEN a
        ELSE IF file = NULL THEN [a EXCEPT !.files[c] = NULL]
        ELSE [t |-> IF rc # 0 THEN WithFailed(a.t, c) ELSE WithParsed(a.t, c, file),
              iRet |-> rc,
              files |-> [a.files EXCEPT ![c] = file],
              calls |-> Append(a.calls, ParserOf(c)),
              logs |-> 0]

InitCredLoad(t, g) ==
    LoadCred(LoadCred(LoadCred(LoadCred(
        [t |-> t, iRet |-> 0, files |-> NoFiles, calls |-> <<>>, logs |-> 0],
        g, "key"), g, "cert"), g, "ca"), g, "crl")

(* mbedtlsInitCred that does not log.                                      *)
mbedtlsInitCred_NoLog(t, g) == InitCredLoad(t, g)

(* mbedtlsInitCred: key, certificate, CA, CRL in this order; the message   *)
(* "nsd mbedtls: error parsing crypto config" is logged when iRet is set.  *)
mbedtlsInitCred(t, g) ==
    LET a == InitCredLoad(t, g) IN
    [a EXCEPT !.logs = IF a.iRet # 0 THEN 1 ELSE 0]

(* What the environment decides in a session bootstrap: the step that      *)
(* fails for a reason outside the driver ("none": no such step), and what  *)
(* mbedtls_ssl_handshake returns when it is reached.                       *)
HsOutcomes == {0, MBEDTLS_ERR_SSL_WANT_READ, MBEDTLS_ERR_SSL_WANT_WRITE,
               MBEDTLS_ERR_X509_CERT_VERIFY_FAILED}

ConnectOutcomes ==
    {[fail |-> f, hs |-> 0] : f \in {"seed", "connect", "setup"}}
        \cup {[fail |-> "none", hs |-> h] : h \in HsOutcomes}

(* mbedtlsInitSession: seeds the random number generator.                  *)
mbedtlsInitSession(t, o) ==
    IF o.fail = "seed"
    THEN [t |-> t, iRet |-> MBEDTLS_ERR_CTR_DRBG_ENTROPY_SOURCE_FAILED]
    ELSE [t |-> [t EXCEPT !.seeded = TRUE], iRet |-> RS_RET_OK]

(* The TLS configuration both Connect and AcceptConnReq install before the *)
(* handshake: the authentication mode, the CA chain and the CRL when their *)
(* presence flags are set, the own certificate when key and certificate    *)
(* are both present; then mbedtls_ssl_setup.                               *)
TlsConf(t) ==
    [t EXCEPT !.conf = [authmode |-> t.authMode,
                        ca_chain |-> IF t.bHaveCaCert # 0 THEN t.cacert ELSE NULL,
                        ca_crl |-> IF t.bHaveCrl # 0 THEN t.crl ELSE NULL,
                        own_cert |-> IF t.bHaveKey # 0 /\ t.bHaveCert # 0
                                     THEN t.srvcert ELSE NULL,
                        own_key |-> IF t.bHaveKey # 0 /\ t.bHaveCert # 0
                                    THEN t.pkey ELSE NULL]]

TlsSetup(t) == [TlsConf(t) EXCEPT !.ssl.state = "setup", !.sock = 1]

(* A handshake call whose every outcome is taken for a session.            *)
Handshake_AnyOutcome(t, hs) ==
    [t |-> [t EXCEPT !.ssl.state = IF hs = 0 THEN "over" ELSE "handshaking",
                     !.bHaveSess = 1],
     iRet |-> RS_RET_OK]

(* The handshake call and what follows it in Connect and AcceptConnReq.    *)
Handshake(t, hs) ==
    IF hs # 0 /\ hs # MBEDTLS_ERR_SSL_WANT_READ /\ hs # MBEDTLS_ERR_SSL_WANT_WRITE
    THEN [t |-> [t EXCEPT !.ssl.state = "failed"], iRet |-> RS_RET_TLS_HANDSHAKE_ERR]
    ELSE [t |-> [t EXCEPT !.ssl.state = IF hs = 0 THEN "over" ELSE "handshaking",
                          !.bHaveSess = 1],
          iRet |-> RS_RET_OK]

(* Connect: the driver after the call, iRet, and what the call did.        *)
ConnectResult(t, g, o) ==
    LET s == mbedtlsInitSession(t, o)
        c == mbedtlsInitCred(s.t, g)
        tc == [c.t EXCEPT !.pTcp = "connected"]
        ts == TlsSetup(tc)
        h == Handshake(ts, o.hs)
        seed == <<"mbedtls_ctr_drbg_seed", "mbedtlsInitCred">>
        R(tt, iRet, calls) == [t |-> tt, iRet |-> iRet, calls |-> calls,
                               files |-> c.files, logs |-> c.logs]
    IN  IF s.iRet # RS_RET_OK
        THEN [t |-> s.t, iRet |-> s.iRet, calls |-> <<"mbedtls_ctr_drbg_seed">>,
              files |-> NoFiles, logs |-> 0]
        ELSE IF c.iRet # RS_RET_OK
        THEN R(c.t, c.iRet, seed \o c.calls)
        ELSE IF o.fail = "connect"
        THEN R(c.t, RS_RET_IO_ERROR, seed \o c.calls \o <<"nsd_ptcp.Connect">>)
        ELSE IF t.iMode = 0
        THEN R(tc, RS_RET_OK, seed \o c.calls \o <<"nsd_ptcp.Connect">>)
        ELSE IF o.fail = "setup"
        THEN R(TlsConf(tc), MBEDTLS_ERR_SSL_ALLOC_FAILED,
               seed \o c.calls \o <<"nsd_ptcp.Connect", "mbedtls_ssl_setup">>)
        ELSE R(h.t, h.iRet,
               seed \o c.calls \o <<"nsd_ptcp.Connect", "mbedtls_ssl_setup",
                                    "mbedtls_ssl_handshake">>)

Connect(d, o) ==
    LET r == ConnectResult(nsd[d], glbl, o) IN
    /\ nsd' = [nsd EXCEPT ![d] = r.t]
    /\ ret' = [Ret("Connect", d, 0, r.iRet, 0, Called(r.calls, "nsd_ptcp.Connect"),
                   IF Called(r.calls, "mbedtls_ssl_handshake") THEN o.hs ELSE 0)
               EXCEPT !.calls = r.calls, !.files = r.files, !.logs = r.logs]
    /\ UNCHANGED <<nsdsel, wire, glbl>>

----------------------------------------------------------------------------
(* nsd_mbedtls.c: nsd_mbedtlsConstruct, mbedtlsEndSess,                    *)
(* nsd_mbedtlsDestruct, AcceptConnReq                                      *)

Construct(d, oom) ==
    /\ nsd[d] = NoObj
    /\ nsd' = IF oom THEN nsd ELSE [nsd EXCEPT ![d] = NewNsd]
    /\ ret' = Ret("Construct", d, 0,
                  IF oom THEN RS_RET_OUT_OF_MEMORY ELSE RS_RET_OK, 0, ~oom, 0)
    /\ UNCHANGED <<nsdsel, wire, glbl>>

(* What mbedtls_ssl_close_notify may return once it no longer reports      *)
(* WANT_READ or WANT_WRITE.                                                *)
CloseNotifyOutcomes == {0, MBEDTLS_ERR_NET_SEND_FAILED}

(* The calls the destructor makes on driver t, when close_notify reports   *)
(* pend times that it is pending before its final return: the session is   *)
(* ended in TLS mode when there is one, the nested driver is destructed    *)
(* when there is one, the strings and the library objects are freed.       *)
DestructCalls(t, pend) ==
    (IF t.iMode = 1 /\ t.bHaveSess # 0
     THEN [i \in 1..(pend + 1) |-> "mbedtls_ssl_close_notify"] ELSE <<>>)
    \o (IF t.pTcp # NULL THEN <<"nsd_ptcp.Destruct">> ELSE <<>>)
    \o <<"free">>

(* The destructor of driver d: a close_notify that the library sent        *)
(* reaches the peer; the socket is closed, and what waited at it is gone.  *)
Destruct(d, pend, n) ==
    LET t == nsd[d]
        notified == t.iMode = 1 /\ t.bHaveSess # 0 /\ n = 0 /\ Linked(d)
    IN
    /\ t # NoObj
    /\ notified => Len(wire[Peer(d)]) < MaxWire
    /\ wire' = IF notified
               THEN [wire EXCEPT ![Peer(d)] = Append(@, [kind |-> "close_notify", bytes |-> <<>>]),
                                 ![d] = <<>>]
               ELSE [wire EXCEPT ![d] = <<>>]
    /\ nsd' = [nsd EXCEPT ![d] = NoObj]
    /\ ret' = [Ret("Destruct", d, 0, RS_RET_OK, 0, t.pTcp # NULL,
                   IF t.iMode = 1 /\ t.bHaveSess # 0 THEN n ELSE 0)
               EXCEPT !.calls = DestructCalls(t, pend)]
    /\ UNCHANGED <<nsdsel, glbl>>

AcceptOutcomes ==
    {[fail |-> f, hs |-> 0] : f \in {"construct", "accept", "strdup", "seed", "setup"}}
        \cup {[fail |-> "none", hs |-> h] : h \in HsOutcomes}

(* The exit of AcceptConnReq (finalize_it): when iRet is not RS_RET_OK and  *)
(* a new driver was constructed (pNew is not NoObj), it is destructed; the *)
(* caller's ppNew holds a driver only on success.                          *)
AcceptFinalize_NoDestruct(pNew, iRet, calls, files, logs) ==
    [new |-> pNew, iRet |-> iRet, calls |-> calls, files |-> files, logs |-> logs]

AcceptFinalize(pNew, iRet, calls, files, logs) ==
    IF iRet = RS_RET_OK \/ pNew = NoObj
    THEN [new |-> pNew, iRet |-> iRet, calls |-> calls, files |-> files,
          logs |-> logs]
    ELSE [new |-> NoObj, iRet |-> iRet,
          calls |-> calls \o <<"nsd_mbedtlsDestruct">> \o DestructCalls(pNew, 0),
          files |-> files, logs |-> logs]

(* A copy of the properties that leaves the permitted peer and the verify  *)
(* depth out.                                                              *)
CopyProps_AuthOnly(pNew, t) ==
    [pNew EXCEPT !.authMode = t.authMode, !.bChkName = t.bChkName,
                 !.pszCertFile = t.pszCertFile,
                 !.pszKeyFile = t.pszKeyFile,
                 !.pszCAFile = t.pszCAFile,
                 !.pszCRLFile = t.pszCRLFile,
                 !.iMode = t.iMode]

(* The properties AcceptConnReq copies from the listener t to the new      *)
(* driver in TLS mode, the strings by strdup.                              *)
CopyProps(pNew, t) ==
    [pNew EXCEPT !.authMode = t.authMode, !.bChkName = t.bChkName,
                 !.pPermPeer = t.pPermPeer,
                 !.DrvrVerifyDepth = t.DrvrVerifyDepth,
                 !.pszCertFile = t.pszCertFile,
                 !.pszKeyFile = t.pszKeyFile,
                 !.pszCAFile = t.pszCAFile,
                 !.pszCRLFile = t.pszCRLFile,
                 !.iMode = t.iMode]

(* AcceptConnReq on the listener t: the new driver handed to the caller    *)
(* (ppNew), or NoObj when the call fails, in which case what was built of  *)
(* the new driver has been destructed.                                     *)
AcceptResult(t, g, o) ==
    LET n0 == [NewNsd EXCEPT !.pTcp = NULL]
        n1 == [n0 EXCEPT !.pTcp = "connected"]
        copies == {t.pPermPeer, t.pszCertFile, t.pszKeyFile, t.pszCAFile,
                   t.pszCRLFile} # {NULL}
        n2 == CopyProps(n1, t)
        s == mbedtlsInitSession(n2, o)
        c == mbedtlsInitCred(s.t, g)
        h == Handshake(TlsSetup(c.t), o.hs)
        pre == <<"nsd_mbedtlsConstruct", "nsd_ptcp.Destruct", "nsd_ptcp.AcceptConnReq">>
        seed == <<"mbedtls_ctr_drbg_seed", "mbedtlsInitCred">>
        hsk == <<"mbedtls_ssl_setup", "mbedtls_ssl_handshake">>
    IN  IF o.fail = "construct"
        THEN AcceptFinalize(NoObj, RS_RET_OUT_OF_MEMORY, <<"nsd_mbedtlsConstruct">>,
                            NoFiles, 0)
        ELSE IF o.fail = "accept"
        THEN AcceptFinalize(n0, RS_RET_ACCEPT_ERR, pre, NoFiles, 0)
        ELSE IF t.iMode = 0
        THEN AcceptFinalize(n1, RS_RET_OK, pre, NoFiles, 0)
        ELSE IF o.fail = "strdup" /\ copies
        THEN AcceptFinalize(n1, RS_RET_OUT_OF_MEMORY, pre \o <<"strdup">>, NoFiles, 0)
        ELSE IF s.iRet # RS_RET_OK
        THEN AcceptFinalize(s.t, s.iRet, pre \o <<"mbedtls_ctr_drbg_seed">>, NoFiles, 0)
        ELSE IF c.iRet # RS_RET_OK
        THEN AcceptFinalize(c.t, c.iRet, pre \o seed \o c.calls, c.files, c.logs)
        ELSE IF o.fail = "setup"
        THEN AcceptFinalize(TlsConf(c.t), MBEDTLS_ERR_SSL_ALLOC_FAILED,
                            pre \o seed \o c.calls \o <<"mbedtls_ssl_setup">>,
                            c.files, 0)
        ELSE AcceptFinalize(h.t, h.iRet, pre \o seed \o c.calls \o hsk, c.files, 0)

(* The new driver takes the free slot new.                                 *)
AcceptConnReq(d, new, o) ==
    LET r == AcceptResult(nsd[d], glbl, o) IN
    /\ d # new /\ nsd[d] # NoObj /\ nsd[new] = NoObj
    /\ nsd' = [nsd EXCEPT ![new] = r.new]
    /\ ret' = [Ret("AcceptConnReq", d, 0, r.iRet,
                   IF r.iRet = RS_RET_OK THEN new ELSE NULL,
                   Called(r.calls, "nsd_ptcp.AcceptConnReq"),
                   IF Called(r.calls, "mbedtls_ssl_handshake") THEN o.hs ELSE 0)
               EXCEPT !.calls = r.calls, !.files = r.files, !.logs = r.logs]
    /\ UNCHANGED <<nsdsel, wire, glbl>>

----------------------------------------------------------------------------
(* nsd_mbedtls.c: Rcv                                                      *)

(* A status mapping without the case of the peer's close_notify.           *)
RcvStatus_NoClosed(n) ==
    IF n = MBEDTLS_ERR_SSL_WANT_READ \/ n = MBEDTLS_ERR_SSL_WANT_WRITE
    THEN RS_RET_RETRY
    ELSE IF n < 0 THEN RS_RET_RCV_ERR
    ELSE IF n = 0 THEN RS_RET_EOF
    ELSE RS_RET_OK

(* The status Rcv maps the library's return value n to.                    *)
RcvStatus(n) ==
    IF n = MBEDTLS_ERR_SSL_WANT_READ \/ n = MBEDTLS_ERR_SSL_WANT_WRITE
    THEN RS_RET_RETRY
    ELSE IF n = MBEDTLS_ERR_SSL_PEER_CLOSE_NOTIFY THEN RS_RET_CLOSED
    ELSE IF n < 0 THEN RS_RET_RCV_ERR
    ELSE IF n = 0 THEN RS_RET_EOF
    ELSE RS_RET_OK

(* A pLenBuf that is written on success only.                              *)
RcvLenBuf_KeepOnError(iRet, n, lenBuf) == IF iRet = RS_RET_OK THEN n ELSE lenBuf

(* The caller's pLenBuf on return, given its value on entry.               *)
RcvLenBuf(iRet, n, lenBuf) ==
    IF iRet # RS_RET_OK /\ iRet # RS_RET_RETRY THEN 0
    ELSE IF iRet = RS_RET_OK THEN n ELSE lenBuf

Rcv(d, lenBuf) ==
    LET t == nsd[d] IN
    IF t.bAbortConn # 0
    THEN /\ ret' = Ret("Rcv", d, lenBuf, RS_RET_CONNECTION_ABORTREQ, 0, FALSE, 0)
         /\ UNCHANGED <<nsd, nsdsel, wire, glbl>>
    ELSE IF t.iMode = 0
    THEN LET p == PtcpRcv(wire[d], lenBuf) IN
         /\ ret' = [Ret("Rcv", d, lenBuf, p.iRet,
                        IF p.iRet # RS_RET_OK /\ p.iRet # RS_RET_RETRY
                        THEN 0 ELSE p.len, TRUE, 0)
                    EXCEPT !.data = p.data]
         /\ wire' = [wire EXCEPT ![d] = p.wire]
         /\ UNCHANGED <<nsd, nsdsel, glbl>>
    ELSE LET o == SslRead(t.ssl, wire[d], lenBuf)
             iRet == RcvStatus(o.n)
         IN
         /\ ret' = [Ret("Rcv", d, lenBuf, iRet, RcvLenBuf(iRet, o.n, lenBuf),
                        FALSE, o.n)
                    EXCEPT !.data = o.data]
         /\ nsd' = [nsd EXCEPT ![d].ssl = o.ssl]
         /\ wire' = [wire EXCEPT ![d] = o.wire]
         /\ UNCHANGED <<nsdsel, glbl>>

----------------------------------------------------------------------------
(* nsd_mbedtls.c: Send                                                     *)

(* What mbedtls_ssl_write(ssl, buf, len) may return once it no longer      *)
(* reports WANT_READ or WANT_WRITE: the non-negative number of bytes it    *)
(* took into a record (at most one record's payload), or an error.         *)
SslWriteOutcomes(len) == {MBEDTLS_ERR_NET_SEND_FAILED} \cup 0..Min(len, MaxRec)

(* Send without the test of bAbortConn on entry.                           *)
SendResult_NoAbortCheck(t, lenBuf, pend, n) ==
    IF t.iMode = 0
    THEN [iRet |-> IF n > 0 THEN RS_RET_OK ELSE RS_RET_IO_ERROR,
          pLenBuf |-> IF n > 0 THEN n ELSE lenBuf,
          written |-> IF n > 0 THEN n ELSE 0,
          nested |-> TRUE, calls |-> <<"nsd_ptcp.Send">>]
    ELSE [iRet |-> IF n <= 0 THEN n ELSE RS_RET_OK,
          pLenBuf |-> IF n <= 0 THEN lenBuf ELSE n,
          written |-> IF n <= 0 THEN 0 ELSE n,
          nested |-> FALSE,
          calls |-> [i \in 1..(pend + 1) |-> "mbedtls_ssl_write"]]

(* Send with lenBuf bytes, when the library reports pend times that the    *)
(* write is pending and then returns n: iRet, the caller's pLenBuf on      *)
(* return, the number of bytes that went out, and the calls made.          *)
SendResult(t, lenBuf, pend, n) ==
    IF t.bAbortConn # 0
    THEN [iRet |-> RS_RET_CONNECTION_ABORTREQ, pLenBuf |-> lenBuf,
          written |-> 0, nested |-> FALSE, calls |-> <<>>]
    ELSE IF t.iMode = 0
    THEN [iRet |-> IF n > 0 THEN RS_RET_OK ELSE RS_RET_IO_ERROR,
          pLenBuf |-> IF n > 0 THEN n ELSE lenBuf,
          written |-> IF n > 0 THEN n ELSE 0,
          nested |-> TRUE, calls |-> <<"nsd_ptcp.Send">>]
    ELSE [iRet |-> IF n <= 0 THEN n ELSE RS_RET_OK,
          pLenBuf |-> IF n <= 0 THEN lenBuf ELSE n,
          written |-> IF n <= 0 THEN 0 ELSE n,
          nested |-> FALSE,
          calls |-> [i \in 1..(pend + 1) |-> "mbedtls_ssl_write"]]

(* The bytes the library or the socket took travel to the peer as one      *)
(* record; the call returns when the connection has room for it.           *)
Send(d, buf, pend, n) ==
    LET r == SendResult(nsd[d], Len(buf), pend, n) IN
    /\ (r.written > 0 /\ Linked(d)) => Len(wire[Peer(d)]) < MaxWire
    /\ wire' = IF r.written > 0 /\ Linked(d)
               THEN [wire EXCEPT ![Peer(d)] = Append(@, DataRec(Take(buf, r.written)))]
               ELSE wire
    /\ ret' = [Ret("Send", d, Len(buf), r.iRet, r.pLenBuf, r.nested, n)
               EXCEPT !.calls = r.calls, !.data = buf]
    /\ UNCHANGED <<nsd, nsdsel, glbl>>

(* What mbedtls_ssl_write returns on the session ssl once it no longer     *)
(* reports WANT_READ or WANT_WRITE; a context that was never set up is     *)
(* refused.                                                                *)
SslWrite(ssl, len) ==
    IF ssl.state = "init" THEN {MBEDTLS_ERR_SSL_BAD_INPUT_DATA}
    ELSE SslWriteOutcomes(len)

----------------------------------------------------------------------------
(* nsd_mbedtls.c: Abort                                                    *)

(* Abort: in plain mode the nested driver's Abort is called; in TLS mode   *)
(* nothing is done.  No field of the driver is written.                    *)
Abort(d) ==
    LET t == nsd[d] IN
    /\ ret' = [Ret("Abort", d, 0, RS_RET_OK, 0, t.iMode = 0, 0)
               EXCEPT !.calls = IF t.iMode = 0 THEN <<"nsd_ptcp.Abort">> ELSE <<>>]
    /\ UNCHANGED <<nsd, nsdsel, wire, glbl>>

(* The peer's next record reaches the driver's socket.                     *)
Arrive(d, rec) ==
    /\ Len(wire[d]) < MaxWire
    /\ wire' = [wire EXCEPT ![d] = Append(@, rec)]
    /\ ret' = Ret("Arrive", d, 0, RS_RET_OK, 0, FALSE, 0)
    /\ UNCHANGED <<nsd, nsdsel, glbl>>

----------------------------------------------------------------------------
(* The multiplexer under arbitrary calls: a TLS mode and a plain mode      *)
(* driver, both connected; any of Add, Select, IsReady and Rcv in any      *)
(* order, records arriving meanwhile.                                      *)

Fill(n) == [i \in 1..n |-> 1]

NoGlbl == [key |-> NULL, cert |-> NULL, ca |-> NULL, crl |-> NULL]

NoRound == [phase |-> "free", todo |-> {}, waitOp |-> <<>>, ready |-> {},
            buffered |-> {}, dummy |-> {}, short |-> {}, oswait |-> FALSE]

(* What the callers have seen: the bytes Send reported as written and the  *)
(* bytes Rcv returned on a connection; for each driver the credential      *)
(* paths its setters accepted last (set), and the CA path before that one  *)
(* (prev); the drivers Abort was called on in TLS mode (aborted).          *)
NoHist == [sent |-> <<>>, rcvd |-> <<>>,
           set |-> [d \in Drivers |-> NoGlbl],
           prev |-> [d \in Drivers |-> NULL],
           aborted |-> {}]

SelInit ==
    /\ nsd = [d \in Drivers |-> Established(IF d = "d1" THEN 1 ELSE 0, <<>>)]
    /\ nsdsel = NewNsdsel
    /\ wire = [d \in Drivers |-> <<>>]
    /\ glbl = NoGlbl
    /\ ret = NoRet
    /\ round = NoRound
    /\ hist = NoHist

SelNext ==
    \/ \E d \in Drivers, waitOp \in WaitOps : Add(d, waitOp) /\ UNCHANGED <<round, hist>>
    \/ Select /\ UNCHANGED <<round, hist>>
    \/ \E d \in Drivers, waitOp \in WaitOps : IsReady(d, waitOp) /\ UNCHANGED <<round, hist>>
    \/ \E d \in Drivers, lenBuf \in 1..MaxLenBuf : Rcv(d, lenBuf) /\ UNCHANGED <<round, hist>>
    \/ \E d \in Drivers : Arrive(d, DataRec(Fill(MaxRec))) /\ UNCHANGED <<round, hist>>

SelSpec == SelInit /\ [][SelNext]_vars

(* C1: a Select call made while iBufferRcvReady > 0 returns exactly that   *)
(* count, does not call the nested select (the OS wait) and leaves the     *)
(* object as it was; a Select call made while the count is 0 calls the     *)
(* nested select.                                                          *)
C1_SelectDummyOrWait ==
    [][ret'.op = "Select" =>
          /\ nsdsel.iBufferRcvReady > 0 =>
                /\ ret'.out = nsdsel.iBufferRcvReady
                /\ ~ret'.nested
                /\ nsdsel' = nsdsel
          /\ nsdsel.iBufferRcvReady = 0 =>
                /\ ret'.nested
                /\ nsdsel'.pTcp.waited
                /\ nsdsel'.iBufferRcvReady = 0]_vars

C1_Witness ==
    /\ ret.op = "Select" /\ ~ret.nested
    /\ ret.out = 2 /\ nsdsel.iBufferRcvReady = 2

(* C3: iBufferRcvReady is never negative.                                  *)
C3_CounterNonNegative == nsdsel.iBufferRcvReady >= 0

(* C4: an IsReady call on a driver that does not take the buffered-bytes   *)
(* shortcut (not TLS mode, or not waiting to read, or no decrypted bytes   *)
(* held) reports not ready without calling the nested IsReady while        *)
(* iBufferRcvReady is non-zero, and calls the nested IsReady when it is 0. *)
C4_NoFallThroughWhileBuffered ==
    [][(/\ ret'.op = "IsReady"
        /\ ~(/\ nsd[ret'.d].iMode = 1
             /\ ret'.arg = NSDSEL_RD
             /\ Len(nsd[ret'.d].ssl.inbuf) > 0)) =>
          /\ nsdsel.iBufferRcvReady # 0 =>
                ret'.out = 0 /\ ~ret'.nested /\ nsdsel' = nsdsel
          /\ nsdsel.iBufferRcvReady = 0 => ret'.nested]_vars

C4_Witness ==
    /\ ret.op = "IsReady" /\ ret.out = 0 /\ ~ret.nested
    /\ nsdsel.iBufferRcvReady > 0
    /\ nsd[ret.d].iMode = 1 /\ ret.arg = NSDSEL_RD

----------------------------------------------------------------------------
(* The multiplexer driven by a polling loop.  One round: Add for every     *)
(* driver, Select, IsReady once for every driver with the wait operation   *)
(* it was added with, then one Rcv on every driver reported ready.  The    *)
(* loop notes per round which drivers were in TLS mode, added for reading  *)
(* and holding decrypted bytes (buffered), which drivers Add did not hand  *)
(* to the nested object (dummy), which IsReady reported ready (ready),     *)
(* which of those without the nested object (short), and whether Select    *)
(* made the OS wait.                                                       *)

NewRound == [phase |-> "add", todo |-> Drivers,
             waitOp |-> [d \in Drivers |-> NSDSEL_RD], ready |-> {},
             buffered |-> {}, dummy |-> {}, short |-> {}, oswait |-> FALSE]

RoundAdd(d, waitOp) ==
    /\ round.phase = "add" /\ d \in round.todo
    /\ Add(d, waitOp)
    /\ round' = [round EXCEPT
                   !.todo = @ \ {d},
                   !.waitOp[d] = waitOp,
                   !.buffered = IF /\ nsd[d].iMode = 1
                                   /\ waitOp = NSDSEL_RD
                                   /\ Len(nsd[d].ssl.inbuf) > 0
                                THEN @ \cup {d} ELSE @,
                   !.dummy = IF ret'.nested THEN @ ELSE @ \cup {d},
                   !.phase = IF round.todo = {d} THEN "select" ELSE @]
    /\ UNCHANGED hist

RoundSelect ==
    /\ round.phase = "select"
    /\ Select
    /\ round' = [round EXCEPT !.phase = "isready", !.todo = Drivers,
                              !.oswait = ret'.nested]
    /\ UNCHANGED hist

RoundIsReady(d) ==
    /\ round.phase = "isready" /\ d \in round.todo
    /\ IsReady(d, round.waitOp[d])
    /\ LET rdy == IF ret'.out = 1 THEN round.ready \cup {d} ELSE round.ready IN
       round' = [round EXCEPT
                   !.ready = rdy,
                   !.short = IF ret'.out = 1 /\ ~ret'.nested
                             THEN @ \cup {d} ELSE @,
                   !.todo = IF round.todo = {d} THEN rdy ELSE @ \ {d},
                   !.phase = IF round.todo = {d} THEN "rcv" ELSE @]
    /\ UNCHANGED hist

RoundRcv(d, lenBuf) ==
    /\ round.phase = "rcv" /\ d \in round.todo
    /\ Rcv(d, lenBuf)
    /\ round' = [round EXCEPT !.todo = @ \ {d}]
    /\ UNCHANGED hist

RoundEnd ==
    /\ round.phase = "rcv" /\ round.todo = {}
    /\ round' = NewRound
    /\ ret' = Ret("RoundEnd", "none", 0, RS_RET_OK, 0, FALSE, 0)
    /\ UNCHANGED <<nsd, nsdsel, wire, glbl, hist>>

RoundArrive(d) ==
    /\ Arrive(d, DataRec(Fill(MaxRec)))
    /\ UNCHANGED <<round, hist>>

RoundInit ==
    /\ nsd \in [Drivers -> {Established(m, <<>>) : m \in {0, 1}}]
    /\ nsd["d1"].iMode = 1
    /\ nsdsel = NewNsdsel
    /\ wire = [d \in Drivers |-> <<>>]
    /\ glbl = NoGlbl
    /\ ret = NoRet
    /\ round = NewRound
    /\ hist = NoHist

RoundLoop ==
    \/ \E d \in Drivers, waitOp \in WaitOps : RoundAdd(d, waitOp)
    \/ RoundSelect
    \/ \E d \in Drivers : RoundIsReady(d)
    \/ \E d \in Drivers, lenBuf \in 1..MaxLenBuf : RoundRcv(d, lenBuf)
    \/ RoundEnd

RoundNext == RoundLoop \/ \E d \in Drivers : RoundArrive(d)

RoundSpec == RoundInit /\ [][RoundNext]_vars

(* The loop keeps running: a step of the loop that stays possible is       *)
(* taken.  Nothing is assumed of the peers.                                *)
RoundLive == RoundSpec /\ WF_vars(RoundLoop)

(* C2: in a polling round iBufferRcvReady is the number of dummy           *)
(* registrations less one for each driver IsReady has reported ready       *)
(* through the buffered-bytes shortcut, and it is zero once IsReady has    *)
(* been called for every driver of the round.                              *)
C2_RoundCountBalanced ==
    /\ nsdsel.iBufferRcvReady =
           Cardinality(round.dummy) - Cardinality(round.short)
    /\ round.phase = "rcv" => nsdsel.iBufferRcvReady = 0

C2_Witness ==
    /\ round.phase = "rcv"
    /\ Cardinality(round.short) = 2
    /\ nsdsel.iBufferRcvReady = 0

(* C5: in every round, each TLS mode driver that held decrypted bytes when *)
(* it was added for reading is reported ready by IsReady through the       *)
(* shortcut, and such a round makes no OS wait; and when the loop keeps    *)
(* running and the buffered bytes get read (rounds that begin with no      *)
(* driver holding decrypted bytes keep coming), every driver handed to the *)
(* nested object is later checked by the nested IsReady after a real OS    *)
(* wait of the same round.                                                 *)
RegisteredNested(d) ==
    /\ round.phase \in {"add", "select", "isready", "rcv"}
    /\ round.phase = "add" => d \notin round.todo
    /\ d \notin round.dummy

OsChecked(d) ==
    /\ ret.op = "IsReady" /\ ret.d = d /\ ret.nested
    /\ round.oswait

DrainedStart ==
    /\ round.phase = "add" /\ round.todo = Drivers
    /\ \A d \in Drivers : nsd[d].ssl.inbuf = <<>>

----------------------------------------------------------------------------
(* One connection: two TLS mode drivers after a completed handshake.  d1's *)
(* caller sends the bytes 1, 2, ..., MaxStream in order: each Send is      *)
(* given the bytes that follow those the earlier Sends reported as         *)
(* written.  d2's caller polls with Rcv and appends what a successful Rcv  *)
(* put into its buffer.                                                    *)

Stream == [i \in 1..MaxStream |-> i]

IsPrefix(s, t) == Len(s) <= Len(t) /\ s = SubSeq(t, 1, Len(s))

ChanSend(d, len, pend, n) ==
    LET buf == SubSeq(Stream, Len(hist.sent) + 1, Len(hist.sent) + len) IN
    /\ Len(hist.sent) + len <= MaxStream
    /\ Send(d, buf, pend, n)
    /\ hist' = IF ret'.iRet = RS_RET_OK
               THEN [hist EXCEPT !.sent = @ \o Take(buf, ret'.out)]
               ELSE hist
    /\ UNCHANGED round

ChanRcv(d, lenBuf) ==
    /\ Rcv(d, lenBuf)
    /\ hist' = IF ret'.iRet = RS_RET_OK
               THEN [hist EXCEPT !.rcvd = @ \o ret'.data]
               ELSE hist
    /\ UNCHANGED round

ChanInit ==
    /\ nsd = [d \in Drivers |-> Established(1, <<>>)]
    /\ nsdsel = NewNsdsel
    /\ wire = [d \in Drivers |-> <<>>]
    /\ glbl = NoGlbl
    /\ ret = NoRet
    /\ round = NoRound
    /\ hist = NoHist

ChanNext ==
    \/ \E len \in 1..MaxLenBuf, pend \in 0..MaxPend :
           \E n \in SslWriteOutcomes(len) : ChanSend("d1", len, pend, n)
    \/ \E lenBuf \in 1..MaxLenBuf : ChanRcv("d2", lenBuf)

ChanSpec == ChanInit /\ [][ChanNext]_vars

(* C6: the bytes the receiver's successful Rcv calls returned, put         *)
(* together, are a prefix of the bytes the sender's Send calls reported as *)
(* written, put together.                                                  *)
C6_RcvdPrefixOfSent == IsPrefix(hist.rcvd, hist.sent)

----------------------------------------------------------------------------
(* The setters under arbitrary calls on freshly constructed drivers.       *)

ModeInputs == {-2147483647, -1, 0, 1, 2, 256, 2147483647}

AuthModeInputs ==
    {NULL, "x509/name", "X509/NAME", "x509/certvalid", "x509/CertValid",
     "anon", "Anon", "x509", "x509/names", "x509/fingerprint", ""}

PermitInputs == {NULL, "off", "OFF", "oFf", "of", "offs", "on", "ON", "warn", ""}

SetInit ==
    /\ nsd = [d \in Drivers |-> NewNsd]
    /\ nsdsel = NewNsdsel
    /\ wire = [d \in Drivers |-> <<>>]
    /\ glbl = NoGlbl
    /\ ret = NoRet
    /\ round = NoRound
    /\ hist = NoHist

SetNext ==
    \/ \E d \in Drivers, mode \in ModeInputs :
           SetMode(d, mode) /\ UNCHANGED <<round, hist>>
    \/ \E d \in Drivers, mode \in AuthModeInputs :
           SetAuthMode(d, mode) /\ UNCHANGED <<round, hist>>
    \/ \E d \in Drivers, mode \in PermitInputs :
           SetPermitExpiredCerts(d, mode) /\ UNCHANGED <<round, hist>>

SetSpec == SetInit /\ [][SetNext]_vars

(* The string with every upper case letter replaced by its lower case one. *)
Lowered(str) == [i \in 1..Len(Chars(str)) |-> tolower(Chars(str)[i])]

UnsupportedAuthMode(mode) ==
    /\ mode # NULL
    /\ Lowered(mode) \notin {Chars("x509/name"), Chars("x509/certvalid"), Chars("anon")}

(* C7: a SetAuthMode call with a string that is none of "x509/name",       *)
(* "x509/certvalid", "anon" (in any case) and not null returns             *)
(* RS_RET_VALUE_NOT_SUPPORTED and leaves both authMode and bChkName of the *)
(* driver as they were.                                                    *)
C7_UnsupportedAuthModeKeepsState ==
    [][(ret'.op = "SetAuthMode" /\ UnsupportedAuthMode(ret'.arg)) =>
          /\ ret'.iRet = RS_RET_VALUE_NOT_SUPPORTED
          /\ nsd'[ret'.d].authMode = nsd[ret'.d].authMode
          /\ nsd'[ret'.d].bChkName = nsd[ret'.d].bChkName]_vars

(* C8: a SetMode call with 0 or 1 returns RS_RET_OK and stores the value   *)
(* in iMode; with any other integer it returns RS_RET_INVALID_DRVR_MODE    *)
(* and leaves the driver as it was.                                        *)
C8_SetModeOnlyZeroOrOne ==
    [][ret'.op = "SetMode" =>
          IF ret'.arg \in {0, 1}
          THEN /\ ret'.iRet = RS_RET_OK
               /\ nsd'[ret'.d].iMode = ret'.arg
               /\ nsd' = [nsd EXCEPT ![ret'.d].iMode = ret'.arg]
          ELSE /\ ret'.iRet = RS_RET_INVALID_DRVR_MODE
               /\ nsd' = nsd]_vars

C8_Witness ==
    /\ ret.op = "SetMode" /\ ret.arg = 2
    /\ ret.iRet = RS_RET_INVALID_DRVR_MODE
    /\ nsd[ret.d].iMode = 1

C13_PermitExpiredOnAccepted ==
    [][(ret'.op = "SetPermitExpiredCerts" /\ ret'.arg # NULL
            /\ Lowered(ret'.arg) = Chars("on")) =>
          ret'.iRet = RS_RET_OK]_vars

----------------------------------------------------------------------------
(* Session bootstrap.  The caller constructs driver d1, configures it      *)
(* (mode and the four credential paths) while it is fresh, and then uses   *)
(* it either as a client (Connect, again after a Connect that failed) or   *)
(* as a listener (AcceptConnReq, the new driver taking slot d2).  The CA   *)
(* path may be set again as long as the driver is not connected, so that   *)
(* a load may follow a load from another CA path.  Drivers are destructed  *)
(* at any time.  The process-wide defaults are fixed when the              *)
(* configuration is loaded.                                                *)

PathInputs == {NULL, "a.pem", "bad.pem"}

Dflt == [key |-> "dflt-key.pem", cert |-> "dflt-cert.pem",
         ca |-> "dflt-ca.pem", crl |-> "dflt-crl.pem"]

GlblInputs == {NoGlbl, Dflt, [NoGlbl EXCEPT !.ca = "bad.pem"]}

Fresh(t) ==
    /\ t.pTcp = "constructed" /\ ~t.seeded
    /\ t.pkey = "init" /\ t.srvcert = "init" /\ t.cacert = "init" /\ t.crl = "init"

Configurable(d, c) ==
    /\ nsd[Peer(d)] = NoObj
    /\ IF c = "ca" THEN nsd[d].pTcp = "constructed" ELSE Fresh(nsd[d])

CredSetMode(d, mode) ==
    /\ Configurable(d, "mode")
    /\ SetMode(d, mode)
    /\ UNCHANGED <<round, hist>>

CredSetFile(d, c, file, oom) ==
    /\ Configurable(d, c)
    /\ SetTlsFile(d, c, file, oom)
    /\ hist' = [hist EXCEPT
                   !.set[d][c] = IF ret'.iRet = RS_RET_OK THEN file ELSE NULL,
                   !.prev[d] = IF c = "ca" THEN hist.set[d].ca ELSE @]
    /\ UNCHANGED round

CredConnect(d, o) ==
    /\ nsd[d].pTcp = "constructed" /\ nsd[Peer(d)] = NoObj
    /\ Connect(d, o)
    /\ UNCHANGED <<round, hist>>

CredAccept(d, new, o) ==
    /\ Fresh(nsd[d])
    /\ AcceptConnReq(d, new, o)
    /\ hist' = IF ret'.iRet = RS_RET_OK /\ nsd[d].iMode = 1
               THEN [hist EXCEPT !.set[new] = hist.set[d]]
               ELSE hist
    /\ UNCHANGED round

CredDestruct(d, pend, n) ==
    /\ Destruct(d, pend, n)
    /\ hist' = [hist EXCEPT !.set[d] = NoGlbl, !.prev[d] = NULL]
    /\ UNCHANGED round

CredConstruct(d, oom) ==
    /\ Construct(d, oom)
    /\ UNCHANGED <<round, hist>>

CredInit ==
    /\ nsd = [d \in Drivers |-> IF d = "d1" THEN NewNsd ELSE NoObj]
    /\ nsdsel = NewNsdsel
    /\ wire = [d \in Drivers |-> <<>>]
    /\ glbl \in GlblInputs
    /\ ret = NoRet
    /\ round = NoRound
    /\ hist = NoHist

CredNext ==
    \/ \E mode \in {0, 1, 2} : CredSetMode("d1", mode)
    \/ \E c \in Creds, file \in PathInputs, oom \in BOOLEAN :
           CredSetFile("d1", c, file, oom)
    \/ \E o \in ConnectOutcomes : CredConnect("d1", o)
    \/ \E o \in AcceptOutcomes : CredAccept("d1", "d2", o)
    \/ \E d \in Drivers, pend \in 0..MaxPend, n \in CloseNotifyOutcomes :
           CredDestruct(d, pend, n)
    \/ \E oom \in BOOLEAN : CredConstruct("d1", oom)

CredSpec == CredInit /\ [][CredNext]_vars

(* The file a credential of driver d is to be loaded from, by what the     *)
(* callers did: the path its setter accepted last, or the process-wide     *)
(* default when that was null or the setter failed.                        *)
Expected(d, c) == IF hist.set[d][c] # NULL THEN hist.set[d][c] ELSE glbl[c]

CredOrder == <<"key", "cert", "ca", "crl">>

(* What a load reports for the i-th credential: its file (NULL: there is   *)
(* none), or "-" when the load has stopped at an earlier credential.       *)
LoadedFrom(d, i) ==
    IF \A j \in 1..(i - 1) : Expected(d, CredOrder[j]) \notin BadFiles
    THEN Expected(d, CredOrder[i]) ELSE "-"

ObjOf(t, c) ==
    CASE c = "key" -> t.pkey
      [] c = "cert" -> t.srvcert
      [] c = "ca" -> t.cacert
      [] c = "crl" -> t.crl

(* C9: in every Connect and every AcceptConnReq that reaches the           *)
(* credential load, each of the four credentials is loaded from the path   *)
(* its setter accepted last on the driver (for AcceptConnReq: on the       *)
(* listener), and from the process-wide default when that path is unset;   *)
(* so after SetTlsCAFile(path) and SetTlsCAFile(null) the CA is loaded     *)
(* from the default.  After Connect the credential object holds the file   *)
(* that was parsed.                                                        *)
C9_CredentialPathResolution ==
    [][(ret'.op \in {"Connect", "AcceptConnReq"}
            /\ Called(ret'.calls, "mbedtlsInitCred")) =>
          /\ \A i \in 1..4 : ret'.files[CredOrder[i]] = LoadedFrom(ret'.d, i)
          /\ ret'.op = "Connect" =>
                \A c \in Creds :
                    ret'.files[c] \notin ({"-", NULL} \cup BadFiles) =>
                        ObjOf(nsd'[ret'.d], c) = ret'.files[c]]_vars

C9_Witness ==
    /\ ret.op = "Connect" /\ ret.d = "d1"
    /\ hist.prev["d1"] = "a.pem" /\ hist.set["d1"].ca = NULL
    /\ ret.files.ca = "dflt-ca.pem" /\ nsd["d1"].cacert = "dflt-ca.pem"
    /\ ret.files.key = "a.pem"

ParseErrors == {MBEDTLS_ERR_PK_KEY_INVALID_FORMAT, MBEDTLS_ERR_X509_INVALID_FORMAT}

(* C10: a Connect of a TLS mode driver that reaches the credential load    *)
(* while the CA file of the driver (its path, or the default) does not     *)
(* parse returns the parse error, makes neither the ptcp connect nor the   *)
(* handshake call, leaves bHaveSess 0 and the TLS session untouched, and   *)
(* logs "error parsing crypto config" exactly once.                        *)
C10_BadCAFileFailsConnect ==
    [][(/\ ret'.op = "Connect"
        /\ nsd[ret'.d].iMode = 1
        /\ Called(ret'.calls, "mbedtlsInitCred")
        /\ Expected(ret'.d, "ca") \in BadFiles) =>
          /\ ret'.iRet \in ParseErrors
          /\ ~Called(ret'.calls, "mbedtls_ssl_handshake")
          /\ ~Called(ret'.calls, "nsd_ptcp.Connect")
          /\ nsd[ret'.d].bHaveSess = 0 /\ nsd'[ret'.d].bHaveSess = 0
          /\ nsd'[ret'.d].ssl = nsd[ret'.d].ssl
          /\ ret'.logs = 1]_vars

C10_Witness ==
    /\ ret.op = "Connect" /\ nsd[ret.d].iMode = 1
    /\ ret.files.ca = "bad.pem" /\ nsd[ret.d].pszCAFile = "bad.pem"
    /\ ret.iRet = MBEDTLS_ERR_X509_INVALID_FORMAT
    /\ ret.logs = 1 /\ nsd[ret.d].bHaveSess = 0

----------------------------------------------------------------------------
(* A listener.  Driver d1 is configured while fresh (mode, the four        *)
(* credential paths) and accepts connections; the accepted driver takes    *)
(* slot d2 until it is destructed.  The process-wide defaults name a file  *)
(* for every credential; one of them may be a file that does not parse.    *)

LsnGlblInputs == {Dflt, [Dflt EXCEPT !.key = "bad.pem"],
                  [Dflt EXCEPT !.crl = "bad.pem"]}

LsnInit ==
    /\ nsd = [d \in Drivers |-> IF d = "d1" THEN NewNsd ELSE NoObj]
    /\ nsdsel = NewNsdsel
    /\ wire = [d \in Drivers |-> <<>>]
    /\ glbl \in LsnGlblInputs
    /\ ret = NoRet
    /\ round = NoRound
    /\ hist = NoHist

LsnNext ==
    \/ \E mode \in {0, 1} : CredSetMode("d1", mode)
    \/ \E c \in Creds, file \in PathInputs : CredSetFile("d1", c, file, FALSE)
    \/ \E o \in AcceptOutcomes : CredAccept("d1", "d2", o)
    \/ \E pend \in 0..MaxPend, n \in CloseNotifyOutcomes :
           CredDestruct("d2", pend, n)

LsnSpec == LsnInit /\ [][LsnNext]_vars

(* C11: an AcceptConnReq on a TLS mode listener that reaches the           *)
(* credential load while one of the four files it resolves (the listener's *)
(* path, or the process-wide default when the path is unset) does not      *)
(* parse logs "error parsing crypto config" once, makes no handshake call, *)
(* returns the parse error and hands no new driver to the caller.          *)
C11_BadCredentialFailsAccept ==
    [][(/\ ret'.op = "AcceptConnReq"
        /\ nsd[ret'.d].iMode = 1
        /\ Called(ret'.calls, "mbedtlsInitCred")
        /\ \E c \in Creds : Expected(ret'.d, c) \in BadFiles) =>
          /\ ret'.logs = 1
          /\ ~Called(ret'.calls, "mbedtls_ssl_setup")
          /\ ~Called(ret'.calls, "mbedtls_ssl_handshake")
          /\ ret'.iRet \in ParseErrors
          /\ ret'.out = NULL
          /\ nsd'["d2"] = NoObj]_vars

C11_Witness ==
    /\ ret.op = "AcceptConnReq" /\ nsd[ret.d].iMode = 1
    /\ glbl.key = "bad.pem" /\ nsd[ret.d].pszKeyFile = NULL
    /\ ret.files.key = "bad.pem"
    /\ ret.iRet = MBEDTLS_ERR_PK_KEY_INVALID_FORMAT
    /\ ret.logs = 1 /\ ret.out = NULL /\ nsd["d2"] = NoObj

(* How often f is among the calls.                                         *)
Count(calls, f) == Cardinality({i \in 1..Len(calls) : calls[i] = f})

(* C18: an AcceptConnReq call leaves the listener as it was.  When it      *)
(* fails after the new driver was constructed, the new driver is           *)
(* destructed exactly once, its accepted nested driver (there is one       *)
(* unless the nested accept failed) is destructed with it, the caller gets *)
(* no driver and the slot is free again.  When it succeeds, no destructor  *)
(* of the new driver runs and the caller gets the connected new driver.    *)
C18_AcceptAllOrNothing ==
    [][ret'.op = "AcceptConnReq" =>
          /\ nsd'[ret'.d] = nsd[ret'.d]
          /\ IF ret'.iRet = RS_RET_OK
             THEN /\ ret'.out = "d2"
                  /\ nsd'["d2"] # NoObj /\ nsd'["d2"].pTcp = "connected"
                  /\ Count(ret'.calls, "nsd_mbedtlsDestruct") = 0
                  /\ Count(ret'.calls, "nsd_ptcp.Destruct") = 1
             ELSE /\ ret'.out = NULL
                  /\ nsd'["d2"] = NoObj
                  /\ Len(ret'.calls) > 1 =>
                        /\ Count(ret'.calls, "nsd_mbedtlsDestruct") = 1
                        /\ Count(ret'.calls, "free") = 1
                        /\ Count(ret'.calls, "nsd_ptcp.Destruct") =
                              IF ret'.iRet = RS_RET_ACCEPT_ERR THEN 1 ELSE 2]_vars

C18_Witness ==
    /\ ret.op = "AcceptConnReq" /\ ret.iRet = RS_RET_TLS_HANDSHAKE_ERR
    /\ ret.lib = MBEDTLS_ERR_X509_CERT_VERIFY_FAILED
    /\ Called(ret.calls, "nsd_mbedtlsDestruct")
    /\ ret.out = NULL /\ nsd["d2"] = NoObj

----------------------------------------------------------------------------
(* One driver through its life.  Driver d1 is constructed, its mode is set *)
(* at any time, and it is used as a client (Connect) or as a listener      *)
(* (AcceptConnReq, the accepted driver taking slot d2).  Once connected it *)
(* receives, sends and is aborted in any order while records of the remote *)
(* end arrive at its socket: data, a close_notify (after which the remote  *)
(* end sends nothing), or a record that fails authentication.              *)
(* No credential file is configured.                                       *)

Records == {DataRec(Fill(MaxRec)),
            [kind |-> "close_notify", bytes |-> <<>>],
            [kind |-> "garbage", bytes |-> <<>>]}

Connected(d) == nsd[d].pTcp = "connected"

(* The handshake call was made on the driver's session.                    *)
HandshakeBegun(t) == t.ssl.state \in {"handshaking", "over", "failed", "closed"}

ConnSetMode(d, mode) ==
    /\ nsd[d] # NoObj
    /\ SetMode(d, mode)
    /\ UNCHANGED <<round, hist>>

ConnConnect(d, o) ==
    /\ nsd[d].pTcp = "constructed" /\ nsd[Peer(d)] = NoObj
    /\ Connect(d, o)
    /\ UNCHANGED <<round, hist>>

ConnAccept(d, new, o) ==
    /\ nsd[d].pTcp = "constructed"
    /\ AcceptConnReq(d, new, o)
    /\ UNCHANGED <<round, hist>>

ConnRcv(d, lenBuf) ==
    /\ Connected(d)
    /\ Rcv(d, lenBuf)
    /\ UNCHANGED <<round, hist>>

ConnSend(d, buf, pend, n) ==
    /\ Connected(d)
    /\ Send(d, buf, pend, n)
    /\ UNCHANGED <<round, hist>>

ConnAbort(d) ==
    /\ Connected(d)
    /\ Abort(d)
    /\ hist' = [hist EXCEPT !.aborted = IF nsd[d].iMode = 1 THEN @ \cup {d} ELSE @]
    /\ UNCHANGED round

ConnArrive(d, rec) ==
    /\ Connected(d) /\ nsd[d].ssl.state # "closed"
    /\ Arrive(d, rec)
    /\ UNCHANGED <<round, hist>>

ConnDestruct(d, pend, n) ==
    /\ Destruct(d, pend, n)
    /\ hist' = [hist EXCEPT !.aborted = @ \ {d}]
    /\ UNCHANGED round

ConnConstruct(d) ==
    /\ Construct(d, FALSE)
    /\ UNCHANGED <<round, hist>>

ConnInit ==
    /\ nsd = [d \in Drivers |-> IF d = "d1" THEN NewNsd ELSE NoObj]
    /\ nsdsel = NewNsdsel
    /\ wire = [d \in Drivers |-> <<>>]
    /\ glbl = NoGlbl
    /\ ret = NoRet
    /\ round = NoRound
    /\ hist = NoHist

ConnNext ==
    \/ \E d \in Drivers, mode \in {0, 1} : ConnSetMode(d, mode)
    \/ \E o \in ConnectOutcomes : ConnConnect("d1", o)
    \/ \E o \in AcceptOutcomes : ConnAccept("d1", "d2", o)
    \/ \E lenBuf \in 1..MaxLenBuf : ConnRcv("d1", lenBuf)
    \/ \E len \in 1..MaxLenBuf, pend \in 0..MaxPend :
           \E n \in SslWrite(nsd["d1"].ssl, len) : ConnSend("d1", Fill(len), pend, n)
    \/ ConnAbort("d1")
    \/ \E rec \in Records : ConnArrive("d1", rec)
    \/ \E d \in Drivers, pend \in 0..MaxPend, n \in CloseNotifyOutcomes :
           ConnDestruct(d, pend, n)
    \/ ConnConstruct("d1")

ConnSpec == ConnInit /\ [][ConnNext]_vars

(* The peer's close_notify is what the next mbedtls_ssl_read on driver d   *)
(* meets: the session holds no decrypted bytes and the record is first at  *)
(* the socket.                                                             *)
CloseNotifyNext(d) ==
    /\ nsd[d].ssl.state # "init" /\ nsd[d].ssl.inbuf = <<>>
    /\ wire[d] # <<>> /\ Head(wire[d]).kind = "close_notify"

(* C14: a Rcv call on a TLS mode driver that meets the peer's close_notify *)
(* returns RS_RET_CLOSED with *pLenBuf 0 and consumes the record, so that  *)
(* no later call reports it again; a Rcv call on a TLS mode driver that    *)
(* does not meet a close_notify does not return RS_RET_CLOSED.             *)
(* RS_RET_CLOSED is neither RS_RET_EOF nor RS_RET_RCV_ERR.                 *)
C14_CloseNotifyIsClosedOnce ==
    [][(ret'.op = "Rcv" /\ nsd[ret'.d].iMode = 1 /\ nsd[ret'.d].bAbortConn = 0) =>
          /\ CloseNotifyNext(ret'.d) =>
                /\ ret'.iRet = RS_RET_CLOSED /\ ret'.out = 0
                /\ ret'.iRet \notin {RS_RET_RCV_ERR, RS_RET_EOF}
                /\ wire'[ret'.d] = Tail(wire[ret'.d])
                /\ nsd'[ret'.d].ssl.state = "closed"
          /\ ~CloseNotifyNext(ret'.d) => ret'.iRet # RS_RET_CLOSED]_vars

C14_Witness ==
    /\ ret.op = "Rcv" /\ nsd[ret.d].iMode = 1
    /\ ret.lib = MBEDTLS_ERR_SSL_PEER_CLOSE_NOTIFY
    /\ ret.iRet = RS_RET_CLOSED /\ ret.out = 0 /\ ret.arg > 0
    /\ nsd[ret.d].ssl.state = "closed" /\ wire[ret.d] = <<>>

(* C15: a Send call in TLS mode makes one call of mbedtls_ssl_write.       *)
C15_SendSingleAttempt ==
    [][(ret'.op = "Send" /\ nsd[ret'.d].iMode = 1 /\ nsd[ret'.d].bAbortConn = 0) =>
          Len(ret'.calls) = 1]_vars

(* C16: Abort in TLS mode does not call the nested driver, and every Rcv   *)
(* and Send on a TLS mode driver after an Abort in TLS mode returns        *)
(* RS_RET_CONNECTION_ABORTREQ; Abort in plain mode calls the nested        *)
(* driver's Abort.                                                         *)
C16_AbortMakesIoFail ==
    [][/\ ret'.op = "Abort" => (ret'.nested <=> nsd[ret'.d].iMode = 0)
       /\ (/\ ret'.op \in {"Rcv", "Send"}
           /\ ret'.d \in hist.aborted
           /\ nsd[ret'.d].iMode = 1) =>
              ret'.iRet = RS_RET_CONNECTION_ABORTREQ]_vars

(* C19: bHaveSess is set only in a driver whose iMode is 1.                *)
C19_SessionOnlyInTlsMode ==
    \A d \in Drivers : nsd[d].bHaveSess # 0 => nsd[d].iMode = 1

(* C20: no step changes iMode of a driver on which the handshake call was  *)
(* made.                                                                   *)
C20_ModeFixedAfterHandshake ==
    [][\A d \in Drivers :
          (HandshakeBegun(nsd[d]) /\ nsd'[d] # NoObj) =>
              nsd'[d].iMode = nsd[d].iMode]_vars

----------------------------------------------------------------------------
(* Rcv and Send as functions of the driver they are called on.  Driver d1  *)
(* is connected, in plain or TLS mode and with bAbortConn clear or set:    *)
(* the field is part of the struct the calls are handed, and nothing in    *)
(* this driver writes it after calloc.                                     *)

FlagInit ==
    /\ nsd \in {[d \in Drivers |->
                    IF d = "d1" THEN [Established(m, <<>>) EXCEPT !.bAbortConn = a]
                    ELSE NoObj] : m \in {0, 1}, a \in {0, 1}}
    /\ nsdsel = NewNsdsel
    /\ wire = [d \in Drivers |-> <<>>]
    /\ glbl = NoGlbl
    /\ ret = NoRet
    /\ round = NoRound
    /\ hist = NoHist

FlagNext ==
    \/ \E lenBuf \in 1..MaxLenBuf :
           Rcv("d1", lenBuf) /\ UNCHANGED <<round, hist>>
    \/ \E len \in 1..MaxLenBuf, pend \in 0..MaxPend :
           \E n \in SslWrite(nsd["d1"].ssl, len) :
               Send("d1", Fill(len), pend, n) /\ UNCHANGED <<round, hist>>
    \/ \E rec \in Records : Arrive("d1", rec) /\ UNCHANGED <<round, hist>>

FlagSpec == FlagInit /\ [][FlagNext]_vars

(* C17: a Rcv or Send call on a driver whose bAbortConn is set, in plain   *)
(* or TLS mode, returns RS_RET_CONNECTION_ABORTREQ without a call of the   *)
(* nested driver or of the TLS library; nothing is taken from or put on a  *)
(* socket and no driver changes; Rcv sets *pLenBuf to 0.                   *)
C17_AbortFlagFailsIoFirst ==
    [][(ret'.op \in {"Rcv", "Send"} /\ nsd[ret'.d].bAbortConn # 0) =>
          /\ ret'.iRet = RS_RET_CONNECTION_ABORTREQ
          /\ ~ret'.nested /\ ret'.calls = <<>> /\ ret'.data \in {<<>>, Fill(ret'.arg)}
          /\ ret'.op = "Rcv" => (ret'.out = 0 /\ ret'.lib = 0 /\ ret'.data = <<>>)
          /\ nsd' = nsd /\ wire' = wire]_vars

C17_Witness ==
    /\ ret.op = "Rcv" /\ nsd[ret.d].bAbortConn = 1 /\ nsd[ret.d].iMode = 1
    /\ wire[ret.d] # <<>>
    /\ ret.iRet = RS_RET_CONNECTION_ABORTREQ /\ ret.arg > 0 /\ ret.out = 0

----------------------------------------------------------------------------
(* C21: a Destruct call makes the mbedtls_ssl_close_notify call, as its    *)
(* first call, exactly when bHaveSess of the driver is set, and bHaveSess  *)
(* is clear afterwards.                                                    *)
C21_DestructClosesActiveSession ==
    [][ret'.op = "Destruct" =>
          /\ nsd[ret'.d].bHaveSess # 0 =>
                (ret'.calls # <<>> /\ Head(ret'.calls) = "mbedtls_ssl_close_notify")
          /\ nsd[ret'.d].bHaveSess = 0 =>
                ~Called(ret'.calls, "mbedtls_ssl_close_notify")
          /\ nsd'[ret'.d].bHaveSess = 0]_vars

----------------------------------------------------------------------------
(* The destructor step by step.  Driver d1 is configured, connected and    *)
(* used as before; its destructor, once entered, is the only thing that    *)
(* runs.  In TLS mode with a session it enters the loop of mbedtlsEndSess, *)
(* in which every mbedtls_ssl_close_notify call is one step whose return   *)
(* value the library decides: WANT_READ and WANT_WRITE lead to the next    *)
(* call, every other value leaves the loop, and the rest of the destructor *)
(* follows.                                                                *)

EndSessOutcomes ==
    CloseNotifyOutcomes \cup {MBEDTLS_ERR_SSL_WANT_READ, MBEDTLS_ERR_SSL_WANT_WRITE}

InEndSess(d) == round.phase = "endsess" /\ d \in round.todo

EndIdle == round.phase = "free"

(* The destructor is entered; with a session in TLS mode the loop of       *)
(* mbedtlsEndSess begins, else the destructor runs to its end.             *)
EndEnter(d) ==
    /\ EndIdle /\ nsd[d] # NoObj
    /\ IF nsd[d].iMode = 1 /\ nsd[d].bHaveSess # 0
       THEN /\ round' = [NoRound EXCEPT !.phase = "endsess", !.todo = {d}]
            /\ ret' = Ret("mbedtlsEndSess", d, 0, RS_RET_OK, 0, FALSE, 0)
            /\ UNCHANGED <<nsd, nsdsel, wire, glbl, hist>>
       ELSE /\ Destruct(d, 0, 0)
            /\ UNCHANGED <<round, hist>>

(* One pass of the loop: the call returns r.                               *)
EndSessTry(d, r) ==
    /\ InEndSess(d)
    /\ IF r = MBEDTLS_ERR_SSL_WANT_READ \/ r = MBEDTLS_ERR_SSL_WANT_WRITE
       THEN /\ ret' = [Ret("mbedtls_ssl_close_notify", d, 0, RS_RET_OK, 0, FALSE, r)
                       EXCEPT !.calls = <<"mbedtls_ssl_close_notify">>]
            /\ UNCHANGED <<nsd, nsdsel, wire, glbl, round, hist>>
       ELSE /\ Destruct(d, 0, r)
            /\ round' = NoRound
            /\ UNCHANGED hist

EndSessLoop == \E d \in Drivers, r \in EndSessOutcomes : EndSessTry(d, r)

EndInit ==
    /\ nsd = [d \in Drivers |-> IF d = "d1" THEN NewNsd ELSE NoObj]
    /\ nsdsel = NewNsdsel
    /\ wire = [d \in Drivers |-> <<>>]
    /\ glbl = NoGlbl
    /\ ret = NoRet
    /\ round = NoRound
    /\ hist = NoHist

EndNext ==
    \/ \E mode \in {0, 1} : EndIdle /\ ConnSetMode("d1", mode)
    \/ \E o \in ConnectOutcomes : EndIdle /\ ConnConnect("d1", o)
    \/ \E lenBuf \in 1..MaxLenBuf : EndIdle /\ ConnRcv("d1", lenBuf)
    \/ \E rec \in Records : EndIdle /\ ConnArrive("d1", rec)
    \/ EndIdle /\ ConnConstruct("d1")
    \/ EndEnter("d1")
    \/ EndSessLoop

EndSpec == EndInit /\ [][EndNext]_vars

(* The thread that entered the destructor keeps running: the next pass of  *)
(* the loop is made.  Nothing is assumed of what the library returns.      *)
EndLive == EndSpec /\ WF_vars(EndSessLoop)

(* C22: a destructor that has entered the loop of mbedtlsEndSess comes to  *)
(* its end, the driver freed and its nested driver released.               *)
C22_DestructTerminates ==
    \A d \in Drivers : [](InEndSess(d) => <>(nsd[d] = NoObj))

----------------------------------------------------------------------------
(* A listener and its properties.  Driver d1 is fresh; its mode, auth      *)
(* mode, permitted peers, verify depth and credential paths are set in any *)
(* order and any number of times while no accepted driver exists, and it   *)
(* accepts connections, the accepted driver taking slot d2 until it is     *)
(* destructed.  No process-wide default is configured.                     *)

PeerLists ==
    {<<>>,
     <<PermPeer("a.example", "PERM_PEER_TYPE_PLAIN")>>,
     <<PermPeer("b.example", "PERM_PEER_TYPE_UNDECIDED"),
       PermPeer("c.example", "PERM_PEER_TYPE_PLAIN")>>,
     <<PermPeer("*.example", "PERM_PEER_TYPE_WILDCARD")>>}

PropAuthModes == {"anon", "x509/name", "x509/certvalid", "x509"}

MaxDepth == 2

PropInit ==
    /\ nsd = [d \in Drivers |-> IF d = "d1" THEN NewNsd ELSE NoObj]
    /\ nsdsel = NewNsdsel
    /\ wire = [d \in Drivers |-> <<>>]
    /\ glbl = NoGlbl
    /\ ret = NoRet
    /\ round = NoRound
    /\ hist = NoHist

(* The listener is configured before it accepts.                           *)
PropSet == nsd["d2"] = NoObj

PropNext ==
    \/ \E mode \in {0, 1} :
           PropSet /\ SetMode("d1", mode) /\ UNCHANGED <<round, hist>>
    \/ \E mode \in PropAuthModes :
           PropSet /\ SetAuthMode("d1", mode) /\ UNCHANGED <<round, hist>>
    \/ \E l \in PeerLists, oom \in BOOLEAN :
           PropSet /\ SetPermPeers("d1", l, oom) /\ UNCHANGED <<round, hist>>
    \/ \E n \in {0, MaxDepth} :
           PropSet /\ SetTlsVerifyDepth("d1", n) /\ UNCHANGED <<round, hist>>
    \/ \E c \in Creds, file \in {NULL, "a.pem"} :
           PropSet /\ SetTlsFile("d1", c, file, FALSE) /\ UNCHANGED <<round, hist>>
    \/ \E o \in AcceptOutcomes :
           AcceptConnReq("d1", "d2", o) /\ UNCHANGED <<round, hist>>
    \/ Destruct("d2", 0, 0) /\ UNCHANGED <<round, hist>>

PropSpec == PropInit /\ [][PropNext]_vars

NameCheckMode(t) == t.authMode = MBEDTLS_SSL_VERIFY_REQUIRED /\ t.bChkName # 0

(* C23: a SetPermPeers call with an empty (null) list returns RS_RET_OK    *)
(* and clears pPermPeer in every auth mode.  With a list: outside the      *)
(* x509/name mode it fails with RS_RET_VALUE_NOT_IN_THIS_MODE, in that     *)
(* mode with a first entry that is neither plain nor undecided it fails    *)
(* with RS_RET_VALUE_NOT_SUPPORTED, and both leave the driver as it was;   *)
(* it returns RS_RET_OK only in the x509/name mode, and then pPermPeer is  *)
(* the first entry's pszID, whatever follows it.                           *)
C23_PermPeersOnlyWithNameCheck ==
    [][ret'.op = "SetPermPeers" =>
          LET t == nsd[ret'.d]
              l == ret'.arg
          IN  /\ l = <<>> =>
                    /\ ret'.iRet = RS_RET_OK
                    /\ nsd' = [nsd EXCEPT ![ret'.d].pPermPeer = NULL]
              /\ (l # <<>> /\ ~NameCheckMode(t)) =>
                    /\ ret'.iRet = RS_RET_VALUE_NOT_IN_THIS_MODE
                    /\ nsd' = nsd
              /\ (/\ l # <<>> /\ NameCheckMode(t)
                  /\ l[1].etryType \notin {"PERM_PEER_TYPE_UNDECIDED",
                                            "PERM_PEER_TYPE_PLAIN"}) =>
                    /\ ret'.iRet = RS_RET_VALUE_NOT_SUPPORTED
                    /\ nsd' = nsd
              /\ (l # <<>> /\ ret'.iRet = RS_RET_OK) =>
                    /\ NameCheckMode(t)
                    /\ nsd' = [nsd EXCEPT ![ret'.d].pPermPeer = l[1].pszID]]_vars

C23_Witness ==
    /\ ret.op = "SetPermPeers" /\ ret.iRet = RS_RET_VALUE_NOT_SUPPORTED
    /\ nsd[ret.d].pPermPeer = "b.example" /\ ret.arg # <<>>
    /\ ret.arg[1].pszID = "*.example"

(* The properties AcceptConnReq hands on.                                  *)
Props(t) == <<t.iMode, t.authMode, t.bChkName, t.pPermPeer, t.DrvrVerifyDepth,
              t.pszCertFile, t.pszKeyFile, t.pszCAFile, t.pszCRLFile>>

(* C28: an AcceptConnReq call leaves the listener as it was.  When it      *)
(* succeeds on a TLS mode listener, iMode, authMode, bChkName, pPermPeer,  *)
(* DrvrVerifyDepth and the four credential paths of the new driver are the *)
(* listener's.  On a plain mode listener it makes neither the seeding, nor *)
(* the credential load, nor the handshake call, and when the nested accept *)
(* succeeds it returns the new driver in plain mode with bHaveSess 0.      *)
C28_AcceptInheritsProps ==
    [][ret'.op = "AcceptConnReq" =>
          /\ nsd'[ret'.d] = nsd[ret'.d]
          /\ (nsd[ret'.d].iMode = 1 /\ ret'.iRet = RS_RET_OK) =>
                /\ ret'.out = "d2"
                /\ Props(nsd'["d2"]) = Props(nsd[ret'.d])
          /\ nsd[ret'.d].iMode = 0 =>
                /\ ret'.calls \in {<<"nsd_mbedtlsConstruct">>,
                                   <<"nsd_mbedtlsConstruct", "nsd_ptcp.Destruct",
                                     "nsd_ptcp.AcceptConnReq">>,
                                   <<"nsd_mbedtlsConstruct", "nsd_ptcp.Destruct",
                                     "nsd_ptcp.AcceptConnReq", "nsd_mbedtlsDestruct",
                                     "free">>}
                /\ ret'.iRet = RS_RET_OK <=> Len(ret'.calls) = 3
                /\ ret'.iRet = RS_RET_OK =>
                      /\ ret'.out = "d2"
                      /\ nsd'["d2"] = [NewNsd EXCEPT !.pTcp = "connected"]]_vars

C28_Witness ==
    /\ ret.op = "AcceptConnReq" /\ ret.iRet = RS_RET_OK /\ ret.out = "d2"
    /\ nsd["d1"].iMode = 1 /\ nsd["d2"].iMode = 1
    /\ nsd["d2"].authMode = MBEDTLS_SSL_VERIFY_REQUIRED /\ nsd["d2"].bChkName = 1
    /\ nsd["d2"].pPermPeer = "b.example"
    /\ nsd["d2"].DrvrVerifyDepth = MaxDepth
    /\ nsd["d2"].pszCAFile = "a.pem" /\ nsd["d2"].pszKeyFile = NULL

----------------------------------------------------------------------------
(* C24: bHaveSess is set only in a driver whose handshake is over: not     *)
(* while the last mbedtls_ssl_handshake call returned WANT_READ or         *)
(* WANT_WRITE.                                                             *)
C24_SessionOnlyAfterHandshake ==
    \A d \in Drivers : nsd[d].bHaveSess # 0 => nsd[d].ssl.state # "handshaking"

(* The place of the first call of f among the calls, 0 when there is none. *)
Pos(calls, f) ==
    IF Called(calls, f)
    THEN CHOOSE i \in 1..Len(calls) :
             calls[i] = f /\ \A j \in 1..(i - 1) : calls[j] # f
    ELSE 0

(* C25: in every Connect call the seeding comes first; the credential load *)
(* follows only a seeding that succeeded; nsd_ptcp.Connect follows only a  *)
(* credential load that succeeded; mbedtls_ssl_setup and the handshake     *)
(* call follow only an nsd_ptcp.Connect that succeeded, and only in TLS    *)
(* mode.  A handshake return value other than 0, WANT_READ and WANT_WRITE  *)
(* gives RS_RET_TLS_HANDSHAKE_ERR with bHaveSess 0.                        *)
C25_ConnectOrder ==
    [][ret'.op = "Connect" =>
          LET c == ret'.calls
              t == nsd[ret'.d]
              seedFailed == ret'.iRet = MBEDTLS_ERR_CTR_DRBG_ENTROPY_SOURCE_FAILED
              credFailed == ret'.logs = 1
              connFailed == ret'.iRet = RS_RET_IO_ERROR
          IN  /\ c # <<>> /\ c[1] = "mbedtls_ctr_drbg_seed"
              /\ seedFailed => Len(c) = 1
              /\ Called(c, "mbedtlsInitCred") => Pos(c, "mbedtlsInitCred") = 2
              /\ credFailed => (ret'.iRet \in ParseErrors
                                  /\ ~Called(c, "nsd_ptcp.Connect"))
              /\ Called(c, "nsd_ptcp.Connect") =>
                    /\ Pos(c, "mbedtlsInitCred") = 2
                    /\ Pos(c, "nsd_ptcp.Connect") > 2
                    /\ ~seedFailed /\ ~credFailed
              /\ (connFailed \/ t.iMode = 0) =>
                    /\ ~Called(c, "mbedtls_ssl_setup")
                    /\ ~Called(c, "mbedtls_ssl_handshake")
                    /\ nsd'[ret'.d].ssl = t.ssl
              /\ Called(c, "mbedtls_ssl_handshake") =>
                    /\ t.iMode = 1
                    /\ Pos(c, "mbedtls_ssl_handshake") = Len(c)
                    /\ Pos(c, "mbedtls_ssl_setup") = Len(c) - 1
                    /\ Pos(c, "nsd_ptcp.Connect") = Len(c) - 2
                    /\ IF ret'.lib \in {0, MBEDTLS_ERR_SSL_WANT_READ,
                                         MBEDTLS_ERR_SSL_WANT_WRITE}
                       THEN ret'.iRet = RS_RET_OK
                       ELSE /\ ret'.iRet = RS_RET_TLS_HANDSHAKE_ERR
                            /\ nsd'[ret'.d].bHaveSess = 0]_vars

C25_Witness ==
    /\ ret.op = "Connect" /\ ret.iRet = RS_RET_TLS_HANDSHAKE_ERR
    /\ ret.lib = MBEDTLS_ERR_X509_CERT_VERIFY_FAILED
    /\ Called(ret.calls, "nsd_ptcp.Connect")
    /\ ret.files.ca = "a.pem"
    /\ nsd[ret.d].bHaveSess = 0 /\ nsd[ret.d].ssl.state = "failed"

----------------------------------------------------------------------------
(* Rcv and Send on a connected driver d1, in TLS mode after a completed    *)
(* handshake or in plain mode, while the remote end's records arrive:      *)
(* data, a close_notify, a record that fails authentication, or the end of *)
(* the stream without a close_notify.  A TLS session may hold decrypted    *)
(* bytes of a record read before.                                          *)

RcvRecords ==
    Records \cup {[kind |-> "eof", bytes |-> <<>>]}
        \cup {DataRec(Fill(n)) : n \in 1..MaxRec}

(* Return values of mbedtls_ssl_read(ssl, buf, len).                       *)
ReadOutcomes(len) ==
    (1..len) \cup {0, MBEDTLS_ERR_SSL_WANT_READ, MBEDTLS_ERR_SSL_WANT_WRITE,
                   MBEDTLS_ERR_SSL_PEER_CLOSE_NOTIFY, MBEDTLS_ERR_SSL_INVALID_MAC,
                   MBEDTLS_ERR_SSL_BAD_INPUT_DATA, MBEDTLS_ERR_NET_SEND_FAILED, -1}

IoInit ==
    /\ nsd \in {[d \in Drivers |-> IF d = "d1" THEN Established(m, buf) ELSE NoObj] :
                    m \in {0, 1}, buf \in {Fill(n) : n \in 0..MaxRec}}
    /\ nsd["d1"].iMode = 0 => nsd["d1"].ssl.inbuf = <<>>
    /\ nsdsel = NewNsdsel
    /\ wire = [d \in Drivers |-> <<>>]
    /\ glbl = NoGlbl
    /\ ret = NoRet
    /\ round = NoRound
    /\ hist = NoHist

IoNext ==
    \/ \E lenBuf \in 1..MaxLenBuf : Rcv("d1", lenBuf) /\ UNCHANGED <<round, hist>>
    \/ \E len \in 1..MaxLenBuf, pend \in 0..MaxPend :
           \E n \in SslWrite(nsd["d1"].ssl, len) :
               Send("d1", Fill(len), pend, n) /\ UNCHANGED <<round, hist>>
    \/ \E rec \in RcvRecords : ConnArrive("d1", rec)

IoSpec == IoInit /\ [][IoNext]_vars

(* What the claim states of a TLS mode Rcv called with *pLenBuf = len in   *)
(* which mbedtls_ssl_read returned n: iRet and *pLenBuf on return.         *)
RcvMapped(n, len, iRet, out) ==
    /\ n > 0 => (iRet = RS_RET_OK /\ out = n)
    /\ n \in {MBEDTLS_ERR_SSL_WANT_READ, MBEDTLS_ERR_SSL_WANT_WRITE} =>
          (iRet = RS_RET_RETRY /\ out = len)
    /\ n = MBEDTLS_ERR_SSL_PEER_CLOSE_NOTIFY => iRet = RS_RET_CLOSED
    /\ n = 0 => iRet = RS_RET_EOF
    /\ (n < 0 /\ n \notin {MBEDTLS_ERR_SSL_WANT_READ, MBEDTLS_ERR_SSL_WANT_WRITE,
                            MBEDTLS_ERR_SSL_PEER_CLOSE_NOTIFY}) =>
          iRet = RS_RET_RCV_ERR
    /\ iRet \notin {RS_RET_OK, RS_RET_RETRY} => out = 0

(* C26: every Rcv call in TLS mode (bAbortConn clear) returns the status   *)
(* and the *pLenBuf the mapping gives for the value mbedtls_ssl_read       *)
(* returned; and the mapping Rcv computes is the stated one for every      *)
(* return value of the library and every buffer size.                      *)
C26_RcvResultMapping ==
    [][(ret'.op = "Rcv" /\ nsd[ret'.d].iMode = 1 /\ nsd[ret'.d].bAbortConn = 0) =>
          /\ RcvMapped(ret'.lib, ret'.arg, ret'.iRet, ret'.out)
          /\ ret'.iRet = RS_RET_OK => Len(ret'.data) = ret'.out
          /\ \A len \in 1..MaxLenBuf : \A n \in ReadOutcomes(len) :
                 RcvMapped(n, len, RcvStatus(n), RcvLenBuf(RcvStatus(n), n, len))]_vars

C26_Witness ==
    /\ ret.op = "Rcv" /\ nsd[ret.d].iMode = 1
    /\ ret.lib = 0 /\ ret.iRet = RS_RET_EOF /\ ret.out = 0 /\ ret.arg = MaxLenBuf
    /\ wire[ret.d] # <<>>

(* C27: every Send call in TLS mode (bAbortConn clear) that returns        *)
(* RS_RET_OK reports in *pLenBuf the positive count mbedtls_ssl_write      *)
(* returned, between 1 and the requested length; and when the value the    *)
(* library returned after the pending ones is not positive, Send does not  *)
(* return RS_RET_OK.                                                       *)
C27_SendReportsLibraryCount ==
    [][(ret'.op = "Send" /\ nsd[ret'.d].iMode = 1 /\ nsd[ret'.d].bAbortConn = 0) =>
          /\ ret'.iRet = RS_RET_OK =>
                 (ret'.out = ret'.lib /\ ret'.lib \in 1..ret'.arg)
          /\ ret'.lib <= 0 => ret'.iRet # RS_RET_OK]_vars

(* C29: every Add call registers the driver exactly one way.  For a TLS    *)
(* mode driver whose session holds decrypted bytes, added with waitOp      *)
(* NSDSEL_RD, iBufferRcvReady grows by one, nsdsel_ptcp.Add is not called  *)
(* and the nested object stays as it was; in every other case              *)
(* nsdsel_ptcp.Add is called with the driver and waitOp, and               *)
(* iBufferRcvReady stays as it was.                                        *)
C29_AddRegistersOneWay ==
    [][ret'.op = "Add" =>
          LET d == ret'.d
              waitOp == ret'.arg
              buffered == /\ nsd[d].iMode = 1
                          /\ waitOp = NSDSEL_RD
                          /\ Len(nsd[d].ssl.inbuf) > 0
          IN  /\ buffered =>
                     /\ nsdsel'.iBufferRcvReady = nsdsel.iBufferRcvReady + 1
                     /\ nsdsel'.pTcp = nsdsel.pTcp
                     /\ ~ret'.nested
              /\ ~buffered =>
                     /\ nsdsel'.iBufferRcvReady = nsdsel.iBufferRcvReady
                     /\ <<d, waitOp>> \in nsdsel'.pTcp.fds
                     /\ ret'.nested]_vars

C29_Witness ==
    /\ ret.op = "Add" /\ ret.d = "d1" /\ ret.arg = NSDSEL_RD /\ ~ret.nested
    /\ nsdsel.iBufferRcvReady = 1
    /\ <<"d2", NSDSEL_RD>> \in nsdsel.pTcp.fds
    /\ <<"d1", NSDSEL_WR>> \in nsdsel.pTcp.fds

(* C30: a dummy round is consistent.  In a round whose Select returned     *)
(* iBufferRcvReady without the OS wait (the count N is then the number of  *)
(* drivers Add did not hand to the nested object), once IsReady has been   *)
(* called once for every driver, exactly N drivers were reported ready,    *)
(* each of them a TLS mode driver that held decrypted bytes when it was    *)
(* added for reading, and no driver handed to the nested object was        *)
(* reported ready.                                                         *)
C30_DummyRoundConsistent ==
    (round.phase = "rcv" /\ ~round.oswait) =>
        /\ Cardinality(round.ready) = Cardinality(round.dummy)
        /\ round.ready \subseteq round.buffered
        /\ round.ready \cap (Drivers \ round.dummy) = {}

(* The presence flag of credential c.                                      *)
FlagOf(t, c) ==
    CASE c = "key" -> t.bHaveKey
      [] c = "cert" -> t.bHaveCert
      [] c = "ca" -> t.bHaveCaCert
      [] c = "crl" -> t.bHaveCrl

(* C31: on every driver a credential's presence flag is set only while the *)
(* credential object holds a successfully parsed value (so it is clear     *)
(* after a load in which that credential's file failed to parse), and the  *)
(* TLS configuration holds no CA chain, CRL, key or certificate object     *)
(* whose parse failed.                                                     *)
C31_FlagsMatchCredentials ==
    \A d \in Drivers :
        /\ \A c \in Creds :
               FlagOf(nsd[d], c) # 0 => ObjOf(nsd[d], c) \notin {"init", "failed"}
        /\ nsd[d].conf.ca_chain # "failed" /\ nsd[d].conf.ca_crl # "failed"
        /\ nsd[d].conf.own_cert # "failed" /\ nsd[d].conf.own_key # "failed"

(* C32: the order of the destructor's calls.  When the driver has a        *)
(* session, mbedtls_ssl_close_notify is called and it comes first; nothing *)
(* is called before a close_notify but close_notify; the strings and the   *)
(* library objects are freed before the nested driver is destructed; a     *)
(* driver that has a nested driver destructs it exactly once, and a driver *)
(* whose pTcp is null makes no call of nsd_ptcp.Destruct.                  *)
C32_DestructOrder ==
    [][ret'.op = "Destruct" =>
          LET t == nsd[ret'.d]
              calls == ret'.calls
              n == Cardinality({i \in 1..Len(calls) : calls[i] = "nsd_ptcp.Destruct"})
          IN  /\ t.bHaveSess # 0 =>
                     (calls # <<>> /\ Head(calls) = "mbedtls_ssl_close_notify")
              /\ \A i \in 1..Len(calls) :
                     calls[i] = "mbedtls_ssl_close_notify" =>
                         \A j \in 1..i : calls[j] = "mbedtls_ssl_close_notify"
              /\ t.pTcp # NULL =>
                     (n = 1 /\ Pos(calls, "free") < Pos(calls, "nsd_ptcp.Destruct"))
              /\ t.pTcp = NULL => n = 0
              /\ nsd'[ret'.d] = NoObj]_vars

====
